---------------------------- MODULE Spec2Model ----------------------------
(***************************************************************************)
(* A model of the PPTX extraction engine, scripts/extract-pptx.py, and of   *)
(* the save handler and review page of scripts/review-server.py.           *)
(*                                                                         *)
(* Each component is a small state machine with its own specification:     *)
(*   SpecSections      detect_sections / extract_native_sections           *)
(*   SpecFallback      detect_sections on decks without native sections    *)
(*   SpecSlide         process_slide, the per-shape dispatch               *)
(*   SpecWalk          process_slide on two storage orders of a slide      *)
(*   SpecSmartArt      extract_smart_art: re-association, tree emission    *)
(*   SpecDiagramFrame  process_slide at a shape that holds a diagram       *)
(*   SpecAnim          extract_animation_map                               *)
(*   SpecEmf           extract_emf_embedded_image                          *)
(*   SpecRuns          extract_formatted_runs / extract_text_from_shape    *)
(*   SpecImage         extract_image                                       *)
(*   SpecPptx          extract_pptx                                        *)
(*   SpecSave          RequestHandler.handle_save                          *)
(*   SpecOwner         extract_smart_art: find_data_owner, with fairness   *)
(*   SpecEmfFair       extract_emf_embedded_image, with fairness           *)
(*   SpecText          process_slide, the default text path                *)
(*   SpecMedia         the files written to the media directory            *)
(*   SpecUi            the review page: its handlers and requests          *)
(* A specification leaves the variables of the other components at their   *)
(* idle values.  Python's None is the empty sequence or the string "None", *)
(* as noted at each definition.                                            *)
(***************************************************************************)
EXTENDS Integers, Sequences, FiniteSets, TLC

VARIABLES
    \* ---- detect_sections ----
    prs_sectionLst,   \* p14:sectionLst of presentation.xml: [present, secs]
    slides_data,      \* the slide results handed to detect_sections
    sections,         \* the value detect_sections returns
    secPc,            \* "start" | "native" | "fallback"
    \* ---- process_slide ----
    shape,            \* the shape the loop of process_slide is at
    shape_idx,        \* idx of enumerate(shapes)
    content,          \* the slide's accumulating content list
    title,            \* the title captured so far ("" stands for None)
    slide_result,     \* the dict process_slide returns (<<>> until then)
    slidePc,          \* "fetch" | "dispatch" | "done" | "raised"
    \* ---- extract_formatted_runs ----
    paragraph,        \* paragraph.runs, a sequence of run records
    run_idx,          \* how many runs the for loop has consumed
    runs,             \* the accumulating list of run dicts
    has_any_formatting,
    runs_result,      \* the list extract_formatted_runs returns
    item,             \* the paragraph item of extract_text_from_shape
    runPc,            \* "loop" | "except" | "returned" | "item"
    \* ---- extract_animation_map ----
    timing,           \* the elements below the first p:seq, in document order
    enc_idx,          \* how many tgtEl visits the nested loops have made
    order,            \* the running counter
    animation_map,    \* shape id -> order
    animPc,           \* "loop" | "returned"
    \* ---- extract_emf_embedded_image ----
    emf_data,         \* the metafile, a sequence of bytes
    pos,              \* the offset of the record the scan is at
    emf_result,       \* the value returned: [data, ext], ext "" for None
    emfPc,            \* "scan" | "returned"
    \* ---- extract_smart_art ----
    points,           \* the dgm:pt elements in document order
    cxns,             \* the dgm:cxn elements in document order
    node_map,         \* modelId -> node dict (<<>> before it is built)
    sa_idx,           \* how many entries the re-association loop has done
    nodes,            \* the list of emitted top-level nodes
    saPc,             \* "read" | "start" | "reassign" | "block" | "none" | "raised"
    \* ---- process_slide on two storage orders of one slide ----
    slide_shapes,     \* run -> list(slide.shapes), the storage order of the run
    shapes,           \* run -> the list after shapes.sort
    walk_idx,         \* run -> idx of enumerate(shapes)
    walk_content,     \* run -> the content list of the run
    walkPc,           \* run -> "sort" | "walk" | "done"
    \* ---- extract_pptx ----
    input_file,       \* the input path: [exists, readable, deck]
    media_dir,        \* "absent" | "created": output_dir/media/<uuid>
    media_files,      \* how many files the run has written into media_dir
    slide_no,         \* len(slides_data)
    presentation_json,\* "absent" | "written": output_dir/presentation.json
    pptxPc,           \* "start" | "load" | "slides" | "done" | "exit" | "raised"
    \* ---- extract_image ----
    picture,          \* the picture shape and what its environment answers
    picture_idx,      \* idx of the shape in the sorted list
    ANALYZE_IMAGES,   \* the global flag
    img_ext,          \* ext, after the metafile conversion
    img_file,         \* the file written to media_dir (<<>> for none)
    img_result,       \* <<>> for None, else the one-element list of the block
    imgPc,            \* "start" | "write" | "build" | "returned"
    \* ---- review-server.py, RequestHandler.handle_save ----
    loaded_data,      \* presentation.json as main() loaded it
    presentation_data,\* state.presentation_data
    save_results,     \* data.get('results', [])
    save_idx,         \* how many items the for loop has done
    json_file,        \* the content of presentation.json on disk
    savePc,           \* "start" | "loop" | "saved" | "error400" | "error500"
    \* ---- find_data_owner (extract-pptx.py 510-527), one call of the loop at 529-537 ----
    owner_curr,       \* curr, 0 for None
    owner_visited,    \* visited
    owner_did,        \* the value find_data_owner returns, 0 for None
    ownerPc,          \* idle, loop, returned
    \* ---- the default text path of process_slide (extract-pptx.py 991-1018) on one shape ----
    has_text_frame,   \* shape.has_text_frame
    text_frame,       \* shape.text_frame.paragraphs, each [text, level, runs]
    para_items,       \* text_content, what extract_text_from_shape returned, <<>> for None
    text_blocks,      \* the blocks appended to content
    textPc,           \* idle, extract, emit, done
    \* ---- the media files one run writes (extract-pptx.py 455-469, 732-736, 792-800, 883-892) ----
    media_slide,      \* slide_num of the slide in process
    media_shape,      \* idx, the position in the sorted shapes
    media_ids,        \* the shape_id values met on the slide
    media_written,    \* every write so far, [path, artifact]
    mediaPc,          \* idle, slide, done
    \* ---- the review page (review-server.py 944-1245): the images array and the requests in flight ----
    ui_status,        \* img.status of every image
    ui_selected,      \* img.selected
    ui_result,        \* img.result: None, the analysis, the edited analysis
    analyze_runs,     \* the analyzeSelected calls that await a response, [queue, at]
    save_requests,    \* the saveApproved calls that await a response, [approved, results]
    analyzeBtn_disabled,\* analyzeBtn.disabled
    saveBtn_disabled, \* saveBtn.disabled
    ui_toast,         \* the last showToast message
    uiPc              \* idle, open

secVars == <<prs_sectionLst, slides_data, sections, secPc>>
slideVars == <<shape, shape_idx, content, title, slide_result, slidePc>>
runVars == <<paragraph, run_idx, runs, has_any_formatting, runs_result, item,
             runPc>>

animVars == <<timing, enc_idx, order, animation_map, animPc>>
emfVars == <<emf_data, pos, emf_result, emfPc>>
saVars == <<points, cxns, node_map, sa_idx, nodes, saPc>>

walkVars == <<slide_shapes, shapes, walk_idx, walk_content, walkPc>>

pptxVars == <<input_file, media_dir, media_files, slide_no, presentation_json, pptxPc>>

imgVars == <<picture, picture_idx, ANALYZE_IMAGES, img_ext, img_file, img_result, imgPc>>

saveVars == <<loaded_data, presentation_data, save_results, save_idx, json_file, savePc>>

ownerVars == <<owner_curr, owner_visited, owner_did, ownerPc>>

textVars == <<has_text_frame, text_frame, para_items, text_blocks, textPc>>

mediaVars == <<media_slide, media_shape, media_ids, media_written, mediaPc>>

uiVars == <<ui_status, ui_selected, ui_result, analyze_runs, save_requests, analyzeBtn_disabled, saveBtn_disabled, ui_toast, uiPc>>

vars == <<secVars, slideVars, runVars, animVars, emfVars, saVars, walkVars, pptxVars, imgVars, saveVars, ownerVars, textVars, mediaVars, uiVars>>

\* What an action of one component leaves alone
secOthers == <<slideVars, runVars, animVars, emfVars, saVars, walkVars, pptxVars, imgVars, saveVars, ownerVars, textVars, mediaVars, uiVars>>
slideOthers == <<secVars, runVars, animVars, emfVars, saVars, walkVars, pptxVars, imgVars, saveVars, ownerVars, textVars, mediaVars, uiVars>>
runOthers == <<secVars, slideVars, animVars, emfVars, saVars, walkVars, pptxVars, imgVars, saveVars, ownerVars, textVars, mediaVars, uiVars>>
animOthers == <<secVars, slideVars, runVars, emfVars, saVars, walkVars, pptxVars, imgVars, saveVars, ownerVars, textVars, mediaVars, uiVars>>
emfOthers == <<secVars, slideVars, runVars, animVars, saVars, walkVars, pptxVars, imgVars, saveVars, ownerVars, textVars, mediaVars, uiVars>>
saOthers == <<secVars, slideVars, runVars, animVars, emfVars, walkVars, pptxVars, imgVars, saveVars, ownerVars, textVars, mediaVars, uiVars>>
walkOthers == <<secVars, slideVars, runVars, animVars, emfVars, saVars, pptxVars, imgVars, saveVars, ownerVars, textVars, mediaVars, uiVars>>
pptxOthers == <<secVars, slideVars, runVars, animVars, emfVars, saVars, walkVars, imgVars, saveVars, ownerVars, textVars, mediaVars, uiVars>>
imgOthers == <<secVars, slideVars, runVars, animVars, emfVars, saVars, walkVars, pptxVars, saveVars, ownerVars, textVars, mediaVars, uiVars>>
saveOthers == <<secVars, slideVars, runVars, animVars, emfVars, saVars, walkVars, pptxVars, imgVars, ownerVars, textVars, mediaVars, uiVars>>
ownerOthers == <<secVars, slideVars, runVars, animVars, emfVars, saVars, walkVars, pptxVars, imgVars, saveVars, textVars, mediaVars, uiVars>>
reassignOthers == <<secVars, slideVars, runVars, animVars, emfVars, walkVars, pptxVars, imgVars, saveVars, textVars, mediaVars, uiVars>>
textOthers == <<secVars, slideVars, runVars, animVars, emfVars, saVars, walkVars, pptxVars, imgVars, saveVars, ownerVars, mediaVars, uiVars>>
mediaOthers == <<secVars, slideVars, runVars, animVars, emfVars, saVars, walkVars, pptxVars, imgVars, saveVars, ownerVars, textVars, uiVars>>
uiOthers == <<secVars, slideVars, runVars, animVars, emfVars, saVars, walkVars, pptxVars, imgVars, saveVars, ownerVars, textVars, mediaVars>>

\* The shape record of "no shape": the loop is between two shapes
NoShape == [video |-> FALSE, ph |-> "none", image |-> "none", table |-> "none",
            smart |-> "none", auto |-> FALSE, text |-> "none", fault |-> "none"]

SecIdle ==
    /\ prs_sectionLst = [present |-> FALSE, secs |-> <<>>]
    /\ slides_data = <<>>
    /\ sections = <<>>
    /\ secPc = "idle"

SlideIdle ==
    /\ shape = NoShape
    /\ shape_idx = 0
    /\ content = <<>>
    /\ title = ""
    /\ slide_result = <<>>
    /\ slidePc = "idle"

RunsIdle ==
    /\ paragraph = <<>>
    /\ run_idx = 0
    /\ runs = <<>>
    /\ has_any_formatting = FALSE
    /\ runs_result = <<>>
    /\ item = <<>>
    /\ runPc = "idle"

AnimIdle ==
    /\ timing = <<>>
    /\ enc_idx = 0
    /\ order = 0
    /\ animation_map = <<>>
    /\ animPc = "idle"

\* the None of extract_emf_embedded_image
NoImage == [data |-> <<>>, ext |-> ""]

EmfIdle ==
    /\ emf_data = <<>>
    /\ pos = 0
    /\ emf_result = NoImage
    /\ emfPc = "idle"

SaIdle ==
    /\ points = <<>>
    /\ cxns = <<>>
    /\ node_map = <<>>
    /\ sa_idx = 0
    /\ nodes = <<>>
    /\ saPc = "idle"

WalkIdle ==
    /\ slide_shapes = <<>>
    /\ shapes = <<>>
    /\ walk_idx = <<>>
    /\ walk_content = <<>>
    /\ walkPc = <<>>

PptxIdle ==
    /\ input_file = <<>>
    /\ media_dir = "absent"
    /\ media_files = 0
    /\ slide_no = 0
    /\ presentation_json = "absent"
    /\ pptxPc = "idle"

ImgIdle ==
    /\ picture = <<>>
    /\ picture_idx = 0
    /\ ANALYZE_IMAGES = FALSE
    /\ img_ext = ""
    /\ img_file = <<>>
    /\ img_result = <<>>
    /\ imgPc = "idle"

SaveIdle ==
    /\ loaded_data = <<>>
    /\ presentation_data = <<>>
    /\ save_results = <<>>
    /\ save_idx = 0
    /\ json_file = <<>>
    /\ savePc = "idle"

OwnerIdle ==
    /\ owner_curr = 0
    /\ owner_visited = {}
    /\ owner_did = 0
    /\ ownerPc = "idle"

TextIdle ==
    /\ has_text_frame = FALSE
    /\ text_frame = <<>>
    /\ para_items = <<>>
    /\ text_blocks = <<>>
    /\ textPc = "idle"

MediaIdle ==
    /\ media_slide = 0
    /\ media_shape = 0
    /\ media_ids = {}
    /\ media_written = {}
    /\ mediaPc = "idle"

UiIdle ==
    /\ ui_status = <<>>
    /\ ui_selected = <<>>
    /\ ui_result = <<>>
    /\ analyze_runs = <<>>
    /\ save_requests = <<>>
    /\ analyzeBtn_disabled = TRUE
    /\ saveBtn_disabled = TRUE
    /\ ui_toast = ""
    /\ uiPc = "idle"

(***************************************************************************)
(* Generic helpers                                                         *)
(***************************************************************************)
SeqsUpTo(S, n) == UNION {[1..k -> S] : k \in 0..n}

Range(s) == {s[i] : i \in DOMAIN s}

RECURSIVE Insert(_, _)
Insert(x, s) ==
    IF s = <<>> THEN <<x>>
    ELSE IF x < Head(s) THEN <<x>> \o s
    ELSE <<Head(s)>> \o Insert(x, Tail(s))

\* sorted(list_of_ints): ascending, duplicates kept
RECURSIVE sorted(_)
sorted(s) == IF s = <<>> THEN <<>> ELSE Insert(Head(s), sorted(Tail(s)))

RECURSIVE Concat(_)
Concat(ss) == IF ss = <<>> THEN <<>> ELSE Head(ss) \o Concat(Tail(ss))

(***************************************************************************)
(* Section Detector                                                        *)
(***************************************************************************)
MaxSlides == 3
MaxSections == 2
MaxIds == 2

\* slide_data['title'] is `title or f"Slide {n}"`: never empty
SlideTitle(i) == <<"Slide 1", "Slide 2", "Slide 3", "Slide 4", "Slide 5">>[i]

SectionName(i) == <<"Section A", "Section B", "Section C", "Section D">>[i]

LayoutNames == {"Section Heading", "Title Only", "Title and Content"}

\* slide_data['layout'].lower()
lower(layout) ==
    CASE layout = "Section Heading" -> "section heading"
      [] layout = "Title Only" -> "title only"
      [] layout = "Title and Content" -> "title and content"
      [] OTHER -> layout

\* kw in s, for the keywords and the (lower-cased) layout names of the model
Contains(kw, s) ==
    \/ kw = s
    \/ kw = "title" /\ s \in {"title only", "title and content", "title slide"}

\* The slides of prs.slides have the ids 1..N in order, so that
\* slide_id_to_order is the identity on 1..N; N+1 is an id of no slide and
\* 0 an id attribute that int() cannot parse.
slide_id_to_order(n) == [sid \in 1..n |-> sid]

IsBadId(sid) == sid = 0

RECURSIVE SectionOrders(_, _)
SectionOrders(ids, map) ==
    IF ids = <<>> THEN <<>>
    ELSE IF Head(ids) \in DOMAIN map
         THEN <<map[Head(ids)]>> \o SectionOrders(Tail(ids), map)
         ELSE SectionOrders(Tail(ids), map)

RECURSIVE NativeFrom(_, _, _)
NativeFrom(secs, i, map) ==
    IF i > Len(secs) THEN <<>>
    ELSE LET slide_orders == SectionOrders(secs[i].ids, map)
             rest == NativeFrom(secs, i + 1, map)
         IN IF slide_orders # <<>>
            THEN <<[title |-> secs[i].name, slide_orders |-> sorted(slide_orders)]>> \o rest
            ELSE rest

\* extract_native_sections: <<>> stands for None.  An id that int() rejects
\* raises inside the try; the handler prints a warning and None is returned.
extract_native_sections(lst, n) ==
    IF ~lst.present THEN <<>>
    ELSE IF \E i \in DOMAIN lst.secs : \E j \in DOMAIN lst.secs[i].ids :
                IsBadId(lst.secs[i].ids[j])
         THEN <<>>
         ELSE NativeFrom(lst.secs, 1, slide_id_to_order(n))

OrderToData(sd) == [o \in {sd[i].order : i \in DOMAIN sd} |->
                       CHOOSE i \in DOMAIN sd : sd[i].order = o]

RECURSIVE SlidesOf(_, _)
SlidesOf(orders, sd) ==
    IF orders = <<>> THEN <<>>
    ELSE IF Head(orders) \in DOMAIN OrderToData(sd)
         THEN <<sd[OrderToData(sd)[Head(orders)]]>> \o SlidesOf(Tail(orders), sd)
         ELSE SlidesOf(Tail(orders), sd)

RECURSIVE NativeSections(_, _)
NativeSections(native, sd) ==
    IF native = <<>> THEN <<>>
    ELSE LET section_slides == SlidesOf(Head(native).slide_orders, sd)
             rest == NativeSections(Tail(native), sd)
         IN IF section_slides # <<>>
            THEN <<[title |-> Head(native).title, slides |-> section_slides]>> \o rest
            ELSE rest

\* is_section_header without the test for an empty content list
is_section_header_LayoutOnly(slide_data) ==
    \/ Contains("section heading", lower(slide_data.layout))
    \/ /\ slide_data.title # ""
       /\ \E kw \in {"title only", "title slide", "full blue background"} :
              Contains(kw, lower(slide_data.layout))

is_section_header(slide_data) ==
    \/ Contains("section heading", lower(slide_data.layout))
    \/ /\ slide_data.content = 0
       /\ slide_data.title # ""
       /\ \E kw \in {"title only", "title slide", "full blue background"} :
              Contains(kw, lower(slide_data.layout))

\* The heuristic loop: acc is `sections`, cur is `current_section`
RECURSIVE FallbackFrom(_, _, _, _)
FallbackFrom(sd, i, acc, cur) ==
    IF i > Len(sd)
    THEN IF cur.slides # <<>> THEN Append(acc, cur) ELSE acc
    ELSE IF is_section_header(sd[i]) /\ cur.slides # <<>>
         THEN FallbackFrom(sd, i + 1, Append(acc, cur),
                           [title |-> sd[i].title, slides |-> <<sd[i]>>])
         ELSE FallbackFrom(sd, i + 1, acc,
                           [cur EXCEPT !.slides = Append(cur.slides, sd[i])])

\* FallbackSections with the first section titled by the first slide
FallbackSections_FirstTitle(sd) ==
    FallbackFrom(sd, 1, <<>>, [title |-> IF sd # <<>> THEN sd[1].title ELSE "Main Content",
                               slides |-> <<>>])

FallbackSections(sd) ==
    FallbackFrom(sd, 1, <<>>, [title |-> "Main Content", slides |-> <<>>])

\* detect_sections, native path
DetectNative ==
    /\ secPc = "start"
    /\ LET native == extract_native_sections(prs_sectionLst, Len(slides_data))
       IN /\ native # <<>>
          /\ sections' = NativeSections(native, slides_data)
    /\ secPc' = "native"
    /\ UNCHANGED <<prs_sectionLst, slides_data, secOthers>>

\* detect_sections, layout heuristic
DetectFallback ==
    /\ secPc = "start"
    /\ extract_native_sections(prs_sectionLst, Len(slides_data)) = <<>>
    /\ sections' = FallbackSections(slides_data)
    /\ secPc' = "fallback"
    /\ UNCHANGED <<prs_sectionLst, slides_data, secOthers>>

SlideKinds ==
    { [layout |-> "Section Heading", content |-> 1],
      [layout |-> "Title Only", content |-> 0],
      [layout |-> "Title Only", content |-> 1],
      [layout |-> "Title and Content", content |-> 0],
      [layout |-> "Title and Content", content |-> 1] }

Decks ==
    UNION { { [i \in 1..n |-> [order |-> i, title |-> SlideTitle(i),
                               layout |-> k[i].layout, content |-> k[i].content]]
              : k \in [1..n -> SlideKinds] } : n \in 0..MaxSlides }

SectionLsts(n) ==
    { [present |-> TRUE,
       secs |-> [i \in DOMAIN idss |-> [name |-> SectionName(i), ids |-> idss[i]]]]
      : idss \in SeqsUpTo(SeqsUpTo(0..(n + 1), MaxIds), MaxSections) }
    \cup { [present |-> FALSE, secs |-> <<>>] }

InitSections ==
    /\ UiIdle
    /\ MediaIdle
    /\ TextIdle
    /\ OwnerIdle
    /\ SaveIdle
    /\ ImgIdle
    /\ PptxIdle
    /\ WalkIdle
    /\ SlideIdle /\ RunsIdle /\ AnimIdle /\ EmfIdle /\ SaIdle
    /\ slides_data \in Decks
    /\ prs_sectionLst \in SectionLsts(Len(slides_data))
    /\ sections = <<>>
    /\ secPc = "start"

NextSections == DetectNative \/ DetectFallback

SpecSections == InitSections /\ [][NextSections]_vars

\* The orders of all slides of all sections, in output order
SectionOrderList == Concat([i \in DOMAIN sections |->
                        [j \in DOMAIN sections[i].slides |-> sections[i].slides[j].order]])

\* C1: once detect_sections has returned, on either path, the slide orders
\* found across the output sections are exactly 1..N, each exactly once.
C1_EverySlideOnce ==
    secPc \in {"native", "fallback"} =>
        /\ Range(SectionOrderList) = 1..Len(slides_data)
        /\ Len(SectionOrderList) = Len(slides_data)

\* C2: once detect_sections has returned, on either path, concatenating the
\* slides of the sections in output order gives 1, 2, ..., N.
C2_DocumentOrder ==
    secPc \in {"native", "fallback"} =>
        SectionOrderList = [i \in 1..Len(slides_data) |-> i]

\* The section lists of a deck of n slides that give no native section: no
\* p14:sectionLst, one without sections, one whose only section names an id
\* of no slide, and one with an id int() rejects
ListsWithoutNative(n) ==
    {[present |-> FALSE, secs |-> <<>>],
     [present |-> TRUE, secs |-> <<>>],
     [present |-> TRUE, secs |-> <<[name |-> SectionName(1), ids |-> <<n + 1>>]>>],
     [present |-> TRUE, secs |-> <<[name |-> SectionName(1), ids |-> <<0>>]>>]}

\* detect_sections on the decks that take the heuristic path
InitFallback ==
    /\ UiIdle
    /\ MediaIdle
    /\ TextIdle
    /\ OwnerIdle
    /\ SaveIdle
    /\ ImgIdle
    /\ PptxIdle
    /\ WalkIdle
    /\ SlideIdle /\ RunsIdle /\ AnimIdle /\ EmfIdle /\ SaIdle
    /\ slides_data \in Decks
    /\ prs_sectionLst \in ListsWithoutNative(Len(slides_data))
    /\ sections = <<>>
    /\ secPc = "start"

SpecFallback == InitFallback /\ [][DetectFallback]_vars

\* Slide i is the first slide of an output section that has its title
StartsSection(i) ==
    \E k \in DOMAIN sections :
        /\ sections[k].slides # <<>>
        /\ sections[k].slides[1].order = i
        /\ sections[k].title = slides_data[i].title

\* Slide i comes right after slide i - 1 in the section of slide i - 1
FollowsPrevious(i) ==
    \E k \in DOMAIN sections : \E j \in DOMAIN sections[k].slides :
        /\ sections[k].slides[j].order = i - 1
        /\ j + 1 \in DOMAIN sections[k].slides
        /\ sections[k].slides[j + 1].order = i

\* The layout name matches one of the section-header / title-only patterns
MatchesLayoutPattern(sd) ==
    \E kw \in {"section heading", "title only", "title slide", "full blue background"} :
        Contains(kw, lower(sd.layout))

\* C15 as stated: on the fallback path a slide other than the first starts
\* a new section, titled with its title, exactly when its layout name
\* matches a section-header/title-only pattern or it has no content block
\* but a title; every other slide is appended to the current section.
C15_NewSectionOnLayoutOrEmpty ==
    secPc = "fallback" =>
        \A i \in 2..Len(slides_data) :
            IF \/ MatchesLayoutPattern(slides_data[i])
               \/ slides_data[i].content = 0 /\ slides_data[i].title # ""
            THEN StartsSection(i) /\ ~FollowsPrevious(i)
            ELSE FollowsPrevious(i) /\ ~StartsSection(i)

\* C15 as amended: exactly when its layout name contains "section heading",
\* or it has no content block and its layout name contains "title only",
\* "title slide" or "full blue background" (a slide always has a title).
C15_NewSectionOnHeadingOrEmptyTitleLayout ==
    secPc = "fallback" =>
        \A i \in 2..Len(slides_data) :
            IF \/ Contains("section heading", lower(slides_data[i].layout))
               \/ /\ slides_data[i].content = 0
                  /\ MatchesLayoutPattern(slides_data[i])
            THEN StartsSection(i) /\ ~FollowsPrevious(i)
            ELSE FollowsPrevious(i) /\ ~StartsSection(i)

\* C15 witness: a title-only slide without content started a section and a
\* title-only slide with content was appended to the current one
C15_Witness ==
    /\ secPc = "fallback"
    /\ \E i, j \in 2..Len(slides_data) :
          /\ slides_data[i].layout = "Title Only" /\ slides_data[i].content = 0
          /\ StartsSection(i)
          /\ slides_data[j].layout = "Title Only" /\ slides_data[j].content > 0
          /\ FollowsPrevious(j)

\* C16: on the fallback path, for a deck of at least one slide, the first
\* output section is titled "Main Content" and its first slide is slide 1,
\* whether or not slide 1 meets the section-header condition.
C16_FirstSectionIsMainContent ==
    (secPc = "fallback" /\ Len(slides_data) >= 1) =>
        /\ sections # <<>>
        /\ sections[1].title = "Main Content"
        /\ sections[1].slides # <<>>
        /\ sections[1].slides[1].order = 1

\* C16 witness: slide 1 has the section-heading layout and still opens the
\* "Main Content" section; a later header slide opens the second section
C16_Witness ==
    /\ secPc = "fallback"
    /\ Len(sections) >= 2
    /\ slides_data[1].layout = "Section Heading"
    /\ sections[1].title = "Main Content"
    /\ sections[1].slides[1].order = 1

(***************************************************************************)
(* Shape Walker: the loop of process_slide                                  *)
(*                                                                         *)
(* A shape is what the dispatch reads of it:                               *)
(*   video  extract_video returns a block (a failure inside it is caught   *)
(*          there and gives None, which is video = FALSE)                  *)
(*   ph     is_placeholder and placeholder_format.type: "none", "body",    *)
(*          "title" (type 1 or 3, with text), "title_empty" (no text)      *)
(*   image  hasattr(shape, 'image'): "none"; else what extract_image       *)
(*          returns: "ok" a block, "skip" None (its try caught a failure)  *)
(*   table  has_table: "none"; else "rows" or "empty" (no row)             *)
(*   smart  dgm:relIds absent: "none"; else what extract_smart_art         *)
(*          returns: "block", or "fail" for None                           *)
(*   auto   extract_auto_shape returns a block                             *)
(*   text   what extract_text_from_shape returns: "none" for None, "one0"  *)
(*          one paragraph of level 0, "one1" one of level 1, "two"         *)
(*   fault  the step at which reading the shape raises, for the steps      *)
(*          process_slide does not guard                                   *)
(***************************************************************************)
MaxShapes == 2

HealthyShapes ==
    [video : BOOLEAN, ph : {"none", "body", "title", "title_empty"},
     image : {"none", "ok", "skip"}, table : {"none", "rows", "empty"},
     smart : {"none", "block", "fail"}, auto : BOOLEAN,
     text : {"none", "one0", "one1", "two"}, fault : {"none"}]

FaultyShapes ==
    { [NoShape EXCEPT !.ph = "body", !.fault = "placeholder"],
      [NoShape EXCEPT !.ph = "title", !.fault = "placeholder"],
      [NoShape EXCEPT !.fault = "image_probe"],
      [NoShape EXCEPT !.video = TRUE, !.fault = "image_probe"],
      [NoShape EXCEPT !.table = "rows", !.fault = "table"],
      [NoShape EXCEPT !.text = "one0", !.fault = "text"],
      [NoShape EXCEPT !.auto = TRUE, !.text = "two", !.fault = "text"],
      [NoShape EXCEPT !.image = "ok", !.fault = "text"] }

Shapes == HealthyShapes \cup FaultyShapes

VideoBlock == [type |-> "video", level |-> 0, items |-> 0, idx |-> 0]
ImageBlock(idx) == [type |-> "image", level |-> 0, items |-> 0, idx |-> idx]
TableBlock == [type |-> "heading", level |-> 3, items |-> 0, idx |-> 0]
SmartArtBlock == [type |-> "smart_art", level |-> 0, items |-> 0, idx |-> 0]
ShapeBlock == [type |-> "shape", level |-> 0, items |-> 0, idx |-> 0]
HeadingBlock == [type |-> "heading", level |-> 2, items |-> 0, idx |-> 0]
ListBlock(n) == [type |-> "list", level |-> 0, items |-> n, idx |-> 0]

\* extract_text_from_shape: the levels of the non-empty paragraphs (<<>> is None)
extract_text_from_shape(s) ==
    CASE s.text = "one0" -> <<0>>
      [] s.text = "one1" -> <<1>>
      [] s.text = "two" -> <<0, 0>>
      [] OTHER -> <<>>

\* The title a title placeholder gives: shape.text_frame.text.strip()
TitleText(s) == IF s.ph = "title" THEN "Introduction" ELSE ""

Outcome(r, b, t) == [raised |-> r, blocks |-> b, title |-> t]

\* The default text step (lines 991-1018)
TextStep(s, pre, ttl) ==
    LET text_content == extract_text_from_shape(s)
    IN IF s.fault = "text" /\ s.text # "none" THEN Outcome(TRUE, pre, ttl)
       ELSE IF text_content = <<>> THEN Outcome(FALSE, pre, ttl)
       ELSE IF Len(text_content) = 1 /\ text_content[1] = 0
            THEN Outcome(FALSE, Append(pre, HeadingBlock), ttl)
            ELSE Outcome(FALSE, Append(pre, ListBlock(Len(text_content))), ttl)

\* The auto-shape step (lines 969-989)
AutoShapeStep(s, pre, ttl) ==
    IF s.auto
    THEN IF s.fault = "text" /\ s.text # "none"
         THEN Outcome(TRUE, Append(pre, ShapeBlock), ttl)
         ELSE IF s.text # "none"
              THEN Outcome(FALSE, pre \o <<ShapeBlock,
                                 ListBlock(Len(extract_text_from_shape(s)))>>, ttl)
              ELSE Outcome(FALSE, Append(pre, ShapeBlock), ttl)
    ELSE TextStep(s, pre, ttl)

\* SmartArtStep with a `continue` for every shape that has dgm:relIds, also
\* when extract_smart_art gave None
SmartArtStep_SkipsOnNone(s, pre, ttl) ==
    IF s.smart = "block" THEN Outcome(FALSE, Append(pre, SmartArtBlock), ttl)
    ELSE IF s.smart = "fail" THEN Outcome(FALSE, pre, ttl)
    ELSE AutoShapeStep(s, pre, ttl)

\* The SmartArt step (lines 963-967)
SmartArtStep(s, pre, ttl) ==
    IF s.smart = "block"
    THEN Outcome(FALSE, Append(pre, SmartArtBlock), ttl)
    ELSE AutoShapeStep(s, pre, ttl)

\* The table step (lines 949-961)
TableStep(s, pre, ttl) ==
    IF s.table # "none"
    THEN IF s.fault = "table" THEN Outcome(TRUE, pre, ttl)
         ELSE IF s.table = "rows" THEN Outcome(FALSE, Append(pre, TableBlock), ttl)
         ELSE Outcome(FALSE, pre, ttl)
    ELSE SmartArtStep(s, pre, ttl)

\* ImageStep without the `continue` of line 947 when extract_image gave None
ImageStep_FallsThrough(s, idx, pre, ttl) ==
    IF s.fault = "image_probe" THEN Outcome(TRUE, pre, ttl)
    ELSE IF s.image = "ok" THEN Outcome(FALSE, Append(pre, ImageBlock(idx)), ttl)
         ELSE TableStep(s, pre, ttl)

\* The image step (lines 942-947); hasattr passes on what is no AttributeError
ImageStep(s, idx, pre, ttl) ==
    IF s.fault = "image_probe" THEN Outcome(TRUE, pre, ttl)
    ELSE IF s.image # "none"
         THEN IF s.image = "ok" THEN Outcome(FALSE, Append(pre, ImageBlock(idx)), ttl)
              ELSE Outcome(FALSE, pre, ttl)
         ELSE TableStep(s, pre, ttl)

\* TitleStep without the `continue` of line 938: the title is captured and
\* the shape goes on to the content steps
TitleStep_NoContinue(s, idx, pre, ttl) ==
    IF s.ph # "none"
    THEN IF s.fault = "placeholder" THEN Outcome(TRUE, pre, ttl)
         ELSE IF s.ph \in {"title", "title_empty"}
              THEN ImageStep(s, idx, pre, TitleText(s))
              ELSE ImageStep(s, idx, pre, ttl)
    ELSE ImageStep(s, idx, pre, ttl)

\* The title step (lines 931-940)
TitleStep(s, idx, pre, ttl) ==
    IF s.ph # "none"
    THEN IF s.fault = "placeholder" THEN Outcome(TRUE, pre, ttl)
         ELSE IF s.ph \in {"title", "title_empty"}
              THEN Outcome(FALSE, pre, TitleText(s))
              ELSE ImageStep(s, idx, pre, ttl)
    ELSE ImageStep(s, idx, pre, ttl)

\* One iteration of `for idx, shape in enumerate(shapes)` (lines 924-1018)
DispatchShape(s, idx, ttl) ==
    TitleStep(s, idx, IF s.video THEN <<VideoBlock>> ELSE <<>>, ttl)

\* The loop takes the next shape of the (sorted) list
FetchShape ==
    /\ slidePc = "fetch"
    /\ shape_idx < MaxShapes
    /\ shape' \in Shapes
    /\ slidePc' = "dispatch"
    /\ UNCHANGED <<shape_idx, content, title, slide_result, slideOthers>>

\* The loop body ran to its end or to a `continue`
DispatchOk ==
    /\ slidePc = "dispatch"
    /\ LET out == DispatchShape(shape, shape_idx, title)
       IN /\ ~out.raised
          /\ content' = content \o out.blocks
          /\ title' = out.title
    /\ shape_idx' = shape_idx + 1
    /\ shape' = NoShape
    /\ slidePc' = "fetch"
    /\ UNCHANGED <<slide_result, slideOthers>>

\* The loop body raised: nothing in process_slide or extract_pptx catches it
DispatchRaise ==
    /\ slidePc = "dispatch"
    /\ LET out == DispatchShape(shape, shape_idx, title)
       IN /\ out.raised
          /\ content' = content \o out.blocks
    /\ slidePc' = "raised"
    /\ UNCHANGED <<shape, shape_idx, title, slide_result, slideOthers>>

\* The list is exhausted: lines 1020-1039
FinishSlide ==
    /\ slidePc = "fetch"
    /\ slide_result' = <<[order |-> 1,
                          title |-> IF title # "" THEN title ELSE SlideTitle(1),
                          content |-> content]>>
    /\ slidePc' = "done"
    /\ UNCHANGED <<shape, shape_idx, content, title, slideOthers>>

InitSlide ==
    /\ UiIdle
    /\ MediaIdle
    /\ TextIdle
    /\ OwnerIdle
    /\ SaveIdle
    /\ ImgIdle
    /\ PptxIdle
    /\ WalkIdle
    /\ SecIdle /\ RunsIdle /\ AnimIdle /\ EmfIdle /\ SaIdle
    /\ shape = NoShape
    /\ shape_idx = 0
    /\ content = <<>>
    /\ title = ""
    /\ slide_result = <<>>
    /\ slidePc = "fetch"

NextSlide == FetchShape \/ DispatchOk \/ DispatchRaise \/ FinishSlide

SpecSlide == InitSlide /\ [][NextSlide]_vars

\* C3: a failure at any step of the dispatch of one shape is caught, the
\* shape alone is skipped and the slide result is still produced: the loop
\* of process_slide never ends by an exception.
C3_ShapeFailureIsContained == slidePc # "raised"

\* The blocks the step appended to content
NewBlocks == SubSeq(content', Len(content) + 1, Len(content'))

RECURSIVE NonVideo(_)
NonVideo(bs) ==
    IF bs = <<>> THEN <<>>
    ELSE IF Head(bs).type = "video" THEN NonVideo(Tail(bs))
    ELSE <<Head(bs)>> \o NonVideo(Tail(bs))

\* The extractor a block comes from
Producer(b) ==
    CASE b.type = "video" -> "video"
      [] b.type = "image" -> "image"
      [] b.type = "heading" /\ b.level = 3 -> "table"
      [] b.type = "smart_art" -> "smart_art"
      [] b.type = "shape" -> "auto_shape"
      [] OTHER -> "text"

\* The first predicate of the priority order that the shape matches
FirstMatch(s) ==
    CASE s.image # "none" -> "image"
      [] s.table # "none" -> "table"
      [] s.smart # "none" -> "smart_art"
      [] s.auto -> "auto_shape"
      [] OTHER -> "text"

IsTitlePlaceholder(s) == s.ph \in {"title", "title_empty"}

\* A step of the loop that dispatched a shape that is no title placeholder
DispatchedContentShape ==
    slidePc = "dispatch" /\ slidePc' = "fetch" /\ ~IsTitlePlaceholder(shape)

VideoOnlyFirst ==
    \A i \in DOMAIN NewBlocks : NewBlocks[i].type = "video" => i = 1

\* C10 as stated: the non-video blocks of a shape that is no title
\* placeholder all come from the one extractor of the first predicate the
\* shape matches (image, table, diagram, auto-shape, text), and a video
\* block comes only first.
C10_OneExtractorPerShape ==
    [][DispatchedContentShape =>
          /\ VideoOnlyFirst
          /\ \A i \in DOMAIN NonVideo(NewBlocks) :
                 Producer(NonVideo(NewBlocks)[i]) = FirstMatch(shape)]_vars

\* C10 as amended: as above for image and table (which end the dispatch even
\* when they emit nothing) and for a diagram that yields a block; a diagram
\* whose extraction yields nothing falls through to the auto-shape and text
\* steps, a recognised auto-shape emits its ShapeBlock and then, when it has
\* text, one ListBlock of the text extractor, and otherwise the text
\* extractor alone emits at most one block.
C10_DispatchByPriority ==
    [][DispatchedContentShape =>
          LET nv == NonVideo(NewBlocks)
          IN /\ VideoOnlyFirst
             /\ Len(NewBlocks) - Len(nv) <= 1
             /\ CASE shape.image # "none" ->
                        Len(nv) <= 1 /\ \A i \in DOMAIN nv : Producer(nv[i]) = "image"
                  [] shape.image = "none" /\ shape.table # "none" ->
                        Len(nv) <= 1 /\ \A i \in DOMAIN nv : Producer(nv[i]) = "table"
                  [] shape.image = "none" /\ shape.table = "none" /\ shape.smart = "block" ->
                        Len(nv) = 1 /\ Producer(nv[1]) = "smart_art"
                  [] OTHER ->
                        IF shape.auto
                        THEN /\ Len(nv) \in {1, 2}
                             /\ Producer(nv[1]) = "auto_shape"
                             /\ Len(nv) = 2 <=> shape.text # "none"
                             /\ Len(nv) = 2 => nv[2].type = "list"
                        ELSE /\ Len(nv) <= 1
                             /\ \A i \in DOMAIN nv : Producer(nv[i]) = "text"]_vars

\* C10 witness: a recognised auto-shape with text has been dispatched (its
\* ShapeBlock is followed by the ListBlock of its text).
C10_Witness ==
    /\ slidePc = "fetch"
    /\ \E i \in DOMAIN content :
          /\ i < Len(content)
          /\ content[i].type = "shape"
          /\ content[i + 1].type = "list"

\* A step of the loop that dispatched a title or center-title placeholder
\* (placeholder_format.type read as 1 or 3)
DispatchedTitlePlaceholder ==
    /\ slidePc = "dispatch" /\ slidePc' # "dispatch"
    /\ IsTitlePlaceholder(shape) /\ shape.fault # "placeholder"

\* C11 as stated: a title or center-title placeholder sets the slide title
\* and contributes no block at all to the slide's content list.
C11_TitlePlaceholderNoBlock ==
    [][DispatchedTitlePlaceholder =>
          /\ title' = TitleText(shape)
          /\ content' = content]_vars

\* C11 as amended: a title or center-title placeholder sets the slide title
\* and contributes no block to the content list other than the one
\* VideoBlock of a video reference the shape itself carries.
C11_TitlePlaceholderOnlyVideo ==
    [][DispatchedTitlePlaceholder =>
          /\ slidePc' = "fetch"
          /\ title' = TitleText(shape)
          /\ NewBlocks = (IF shape.video THEN <<VideoBlock>> ELSE <<>>)
          /\ content' = content \o NewBlocks]_vars

\* C11 witness: the one shape dispatched so far is a title placeholder with
\* a video reference: the title is captured and the content is its VideoBlock
C11_Witness ==
    /\ slidePc = "fetch"
    /\ shape_idx = 1
    /\ title = "Introduction"
    /\ content = <<VideoBlock>>

(***************************************************************************)
(* extract_formatted_runs and the paragraph item of                        *)
(* extract_text_from_shape.                                                *)
(*                                                                         *)
(* A run is [text, bold, italic, underline, url, color]:                   *)
(*   text       "" for an empty run                                        *)
(*   bold, italic, underline   "None" | "True" | "False" (font tri-state)  *)
(*   url        "" (no hyperlink, or one without address), "u" (an         *)
(*              address), "raise" (run.hyperlink.address raises: the       *)
(*              hlinkClick names no relationship of the part)              *)
(*   color      "none", "rgb" (an explicit RGB colour), "theme" (a colour  *)
(*              whose .rgb is None or raises inside the inner try)         *)
(***************************************************************************)
MaxRuns == 3

RunTexts == {"", "a", "b"}

Fmt(b, i, u, url, c) == [bold |-> b, italic |-> i, underline |-> u, url |-> url, color |-> c]

RunFormats ==
    { Fmt("None", "None", "None", "", "none"),
      Fmt("False", "False", "False", "", "theme"),
      Fmt("True", "None", "None", "", "none"),
      Fmt("None", "True", "False", "", "none"),
      Fmt("None", "None", "True", "", "none"),
      Fmt("None", "None", "None", "u", "none"),
      Fmt("None", "None", "None", "", "rgb"),
      Fmt("True", "None", "None", "raise", "none") }

Runs == { [text |-> t, bold |-> f.bold, italic |-> f.italic,
           underline |-> f.underline, url |-> f.url, color |-> f.color] :
          t \in RunTexts, f \in RunFormats }

Paragraphs == SeqsUpTo(Runs, MaxRuns)

\* lines 203-218: the values the loop body computes for one run
bold_of(run) == run.bold = "True"
italic_of(run) == run.italic = "True"
underline_of(run) == run.underline = "True"
url_of(run) == IF run.url = "u" THEN "u" ELSE ""
font_color_of(run) == IF run.color = "rgb" THEN "rgb" ELSE ""

\* lines 225-235: an absent key is FALSE or ""
run_dict(run) ==
    [text |-> run.text, bold |-> bold_of(run), italic |-> italic_of(run),
     underline |-> underline_of(run), url |-> url_of(run),
     font_color |-> font_color_of(run)]

\* line 221
RunHasFormatting(run) ==
    bold_of(run) \/ italic_of(run) \/ underline_of(run)
        \/ url_of(run) # "" \/ font_color_of(run) # ""

CurrentRun == paragraph[run_idx + 1]

\* lines 199-200: `if not run.text: continue`
SkipEmptyRun ==
    /\ runPc = "loop"
    /\ run_idx < Len(paragraph)
    /\ CurrentRun.text = ""
    /\ run_idx' = run_idx + 1
    /\ UNCHANGED <<paragraph, runs, has_any_formatting, runs_result, item,
                   runPc, runOthers>>

\* lines 203-236: one non-empty run whose attributes can be read
AppendRun ==
    /\ runPc = "loop"
    /\ run_idx < Len(paragraph)
    /\ CurrentRun.text # ""
    /\ CurrentRun.url # "raise"
    /\ has_any_formatting' = (has_any_formatting \/ RunHasFormatting(CurrentRun))
    /\ runs' = Append(runs, run_dict(CurrentRun))
    /\ run_idx' = run_idx + 1
    /\ UNCHANGED <<paragraph, runs_result, item, runPc, runOthers>>

\* lines 209, 237-238: the hyperlink lookup raises, the handler ends the loop
RunRaises ==
    /\ runPc = "loop"
    /\ run_idx < Len(paragraph)
    /\ CurrentRun.text # ""
    /\ CurrentRun.url = "raise"
    /\ runPc' = "except"
    /\ UNCHANGED <<paragraph, run_idx, runs, has_any_formatting, runs_result,
                   item, runOthers>>

\* line 240
ReturnRuns ==
    /\ \/ runPc = "loop" /\ run_idx = Len(paragraph)
       \/ runPc = "except"
    /\ runs_result' = IF has_any_formatting THEN runs ELSE <<>>
    /\ runPc' = "returned"
    /\ UNCHANGED <<paragraph, run_idx, runs, has_any_formatting, item,
                   runOthers>>

NonEmpty(run) == run.text # ""

NonEmptyRuns == SelectSeq(paragraph, NonEmpty)

ParaText == [i \in DOMAIN NonEmptyRuns |-> NonEmptyRuns[i].text]

\* lines 622-635: the item carries a `runs` key only for a non-empty list;
\* a paragraph without text gives no item (<<>>)
BuildItem ==
    /\ runPc = "returned"
    /\ item' = IF ParaText = <<>> THEN <<>>
               ELSE IF runs_result # <<>>
                    THEN <<[text |-> ParaText, level |-> 0, runs |-> runs_result]>>
                    ELSE <<[text |-> ParaText, level |-> 0]>>
    /\ runPc' = "item"
    /\ UNCHANGED <<paragraph, run_idx, runs, has_any_formatting, runs_result,
                   runOthers>>

InitRuns ==
    /\ UiIdle
    /\ MediaIdle
    /\ TextIdle
    /\ OwnerIdle
    /\ SaveIdle
    /\ ImgIdle
    /\ PptxIdle
    /\ WalkIdle
    /\ SecIdle /\ SlideIdle /\ AnimIdle /\ EmfIdle /\ SaIdle
    /\ paragraph \in Paragraphs
    /\ run_idx = 0
    /\ runs = <<>>
    /\ has_any_formatting = FALSE
    /\ runs_result = <<>>
    /\ item = <<>>
    /\ runPc = "loop"

NextRuns == SkipEmptyRun \/ AppendRun \/ RunRaises \/ ReturnRuns \/ BuildItem

SpecRuns == InitRuns /\ [][NextRuns]_vars

\* What the paragraph itself says about a run, read off the input
CarriesFormatting(run) ==
    \/ run.bold = "True" \/ run.italic = "True" \/ run.underline = "True"
    \/ run.url # "" \/ run.color = "rgb"

\* C8: extract_formatted_runs returns an empty list (and the item has no
\* `runs` field) exactly when no non-empty run carries bold, italic,
\* underline, hyperlink or colour; otherwise it returns one entry per
\* non-empty run, in run order, with each flag set exactly on the runs that
\* carry it.
C8_RunsExactlyWhenFormatted ==
    runPc \in {"returned", "item"} =>
        LET ne == NonEmptyRuns
            formatted == \E i \in DOMAIN ne : CarriesFormatting(ne[i])
        IN  /\ (runs_result = <<>>) <=> ~formatted
            /\ formatted =>
                 /\ Len(runs_result) = Len(ne)
                 /\ \A i \in DOMAIN ne :
                       /\ runs_result[i].text = ne[i].text
                       /\ runs_result[i].bold = (ne[i].bold = "True")
                       /\ runs_result[i].italic = (ne[i].italic = "True")
                       /\ runs_result[i].underline = (ne[i].underline = "True")
                       /\ (runs_result[i].url # "") = (ne[i].url # "")
                       /\ (runs_result[i].font_color # "") = (ne[i].color = "rgb")
            /\ runPc = "item" /\ item # <<>> =>
                 ("runs" \in DOMAIN item[1]) = formatted

(***************************************************************************)
(* extract_animation_map.                                                  *)
(*                                                                         *)
(* timing lists the elements below the first p:seq in document order       *)
(* (preorder).  An element is [kind, parent, spid]:                        *)
(*   kind    "lst" (p:childTnLst), "par" (p:par), "tgt" (p:tgtEl)          *)
(*   parent  the index of its parent element, 0 for the p:seq itself       *)
(*   spid    of a tgt: a shape id, or 0 when it has no p:spTgt child or    *)
(*           an empty spid; 0 for the other kinds                          *)
(* The spid of a p:spTgt is an unsigned integer by the schema, so int()    *)
(* at line 273 does not raise.                                             *)
(***************************************************************************)
MaxElems == 5
MaxShapeId == 2

Elem(k, par, id) == [kind |-> k, parent |-> par, spid |-> id]

RECURSIVE Ancestors(_, _)
\* the elements on the path from element i up to the p:seq, i included
Ancestors(tree, i) == IF i = 0 THEN {0} ELSE {i} \cup Ancestors(tree, tree[i].parent)

\* the elements that may follow tree in document order: the parent is the
\* last element or one of its ancestors; by the schema a childTnLst is the
\* seq's or a par's (through its cTn), a par is a childTnLst's, and a tgtEl
\* belongs to a behaviour of a childTnLst or to a condition of a par
Extensions(tree) ==
    LET open == Ancestors(tree, Len(tree))
        under(kinds) == {a \in open \ {0} : tree[a].kind \in kinds}
    IN  {Elem("lst", a, 0) : a \in under({"par"}) \cup {0}}
            \cup {Elem("par", a, 0) : a \in under({"lst"})}
            \cup {Elem("tgt", a, id) : a \in under({"lst", "par"}), id \in 0..MaxShapeId}

RECURSIVE Timings(_)
Timings(n) ==
    IF n = 0 THEN {<<>>}
    ELSE LET shorter == Timings(n - 1)
         IN  shorter \cup UNION {{Append(t, e) : e \in Extensions(t)} :
                                        t \in {x \in shorter : Len(x) = n - 1}}

RECURSIVE SortedSeq(_)
\* the ascending sequence of a finite set of integers
SortedSeq(S) ==
    IF S = {} THEN <<>>
    ELSE LET least == CHOOSE x \in S : \A y \in S : x <= y
         IN  <<least>> \o SortedSeq(S \ {least})

\* lines 265-267: every childTnLst below the seq, its direct par children,
\* every tgtEl below such a par, each in document order
Visits(tree) ==
    LET n == Len(tree) + 1
        hit(l, p, t) == /\ tree[p].parent = l
                        /\ p \in Ancestors(tree, t)
        hits == {(l * n + p) * n + t : l \in {x \in DOMAIN tree : tree[x].kind = "lst"},
                                       p \in {x \in DOMAIN tree : tree[x].kind = "par"},
                                       t \in {x \in DOMAIN tree : tree[x].kind = "tgt"}}
        sel == {k \in hits : hit(k \div (n * n), (k \div n) % n, k % n)}
        sq == SortedSeq(sel)
    IN  [i \in DOMAIN sq |-> tree[sq[i] % n].spid]

\* a variant of the write at lines 274-275 that lets a later target of the
\* same shape replace the recorded order
Assign_Overwrite(map, shape_id, ord) ==
    [s \in DOMAIN map \cup {shape_id} |-> IF s = shape_id THEN ord ELSE map[s]]

\* lines 274-275: `if shape_id not in animation_map`
Assign(map, shape_id, ord) ==
    IF shape_id \in DOMAIN map THEN map
    ELSE [s \in DOMAIN map \cup {shape_id} |-> IF s = shape_id THEN ord ELSE map[s]]

CurrentSpid == Visits(timing)[enc_idx + 1]

\* lines 268-275: a target with a shape id
VisitTarget ==
    /\ animPc = "loop"
    /\ enc_idx < Len(Visits(timing))
    /\ CurrentSpid # 0
    /\ order' = order + 1
    /\ animation_map' = Assign(animation_map, CurrentSpid, order + 1)
    /\ enc_idx' = enc_idx + 1
    /\ UNCHANGED <<timing, animPc, animOthers>>

\* lines 269, 271: no spTgt child, or no spid
SkipTarget ==
    /\ animPc = "loop"
    /\ enc_idx < Len(Visits(timing))
    /\ CurrentSpid = 0
    /\ enc_idx' = enc_idx + 1
    /\ UNCHANGED <<timing, order, animation_map, animPc, animOthers>>

\* line 279
ReturnMap ==
    /\ animPc = "loop"
    /\ enc_idx = Len(Visits(timing))
    /\ animPc' = "returned"
    /\ UNCHANGED <<timing, enc_idx, order, animation_map, animOthers>>

InitAnim ==
    /\ UiIdle
    /\ MediaIdle
    /\ TextIdle
    /\ OwnerIdle
    /\ SaveIdle
    /\ ImgIdle
    /\ PptxIdle
    /\ WalkIdle
    /\ SecIdle /\ SlideIdle /\ RunsIdle /\ EmfIdle /\ SaIdle
    /\ timing \in Timings(MaxElems)
    /\ enc_idx = 0
    /\ order = 0
    /\ animation_map = <<>>
    /\ animPc = "loop"

NextAnim == VisitTarget \/ SkipTarget \/ ReturnMap

SpecAnim == InitAnim /\ [][NextAnim]_vars

\* the shape ids the traversal has met so far
Targeted == {Visits(timing)[i] : i \in 1..enc_idx} \ {0}

MaxTail == 3

EMR_COMMENT == 70
EMR_EOF == 14

\* a value above every offset of the buffers drawn here: what a 32-bit
\* size with a non-zero high half does to the slice and to pos
Huge == 65536

GDIC == <<71, 68, 73, 67>>
EMFPLUS == <<69, 77, 70, 43>>
jpg_sig == <<255, 216, 255>>
jpg_eoi == <<255, 217>>
png_sig == <<137, 80, 78, 71, 13, 10, 26, 10>>
IEND == <<73, 69, 78, 68>>

Min(a, b) == IF a < b THEN a ELSE b

\* Python's s[a:b] for 0 <= a
Slice(s, a, b) == IF Min(b, Len(s)) <= a THEN <<>> ELSE SubSeq(s, a + 1, Min(b, Len(s)))

\* Python's hay.find(needle): the least 0-based offset, -1 when absent
find(hay, needle) ==
    LET at == {i \in 0..(Len(hay) - Len(needle)) : Slice(hay, i, i + Len(needle)) = needle}
    IN  IF at = {} THEN -1 ELSE CHOOSE i \in at : \A j \in at : i <= j

\* struct.unpack('<I', ...) of the four bytes at offset p
U32(buf, p) ==
    IF buf[p + 3] # 0 \/ buf[p + 4] # 0 THEN Huge
    ELSE buf[p + 1] + 256 * buf[p + 2]

\* the four bytes of a little-endian value below 65536
LE32(n) == <<n % 256, n \div 256, 0, 0>>

record_type == U32(emf_data, pos)
record_size == U32(emf_data, pos + 4)

\* line 662
comment_data == Slice(emf_data, pos + 8, pos + record_size)

\* a variant of the slice end at line 675 that stops one byte early
JpegEnd_Short(eoi_pos) == eoi_pos + 1

\* line 675: the slice ends after the two bytes of the marker
JpegEnd(eoi_pos) == eoi_pos + 2

\* lines 668-676
JpegIn(cd) ==
    LET jpg_pos == find(cd, jpg_sig)
        jpg_data == Slice(cd, jpg_pos, Len(cd))
        eoi_pos == find(jpg_data, jpg_eoi)
    IN  IF jpg_pos >= 0 /\ eoi_pos > 0
        THEN [data |-> Slice(jpg_data, 0, JpegEnd(eoi_pos)), ext |-> "jpg"]
        ELSE NoImage

\* lines 679-687
PngIn(cd) ==
    LET png_pos == find(cd, png_sig)
        png_data == Slice(cd, png_pos, Len(cd))
        iend_pos == find(png_data, IEND)
    IN  IF png_pos >= 0 /\ iend_pos > 0
        THEN [data |-> Slice(png_data, 0, iend_pos + 8), ext |-> "png"]
        ELSE NoImage

\* lines 661-687: what the record at pos makes the function return
Found ==
    IF /\ record_type = EMR_COMMENT
       /\ Len(comment_data) > 8
       /\ Slice(comment_data, 4, 8) = GDIC
    THEN IF JpegIn(comment_data) # NoImage THEN JpegIn(comment_data)
         ELSE PngIn(comment_data)
    ELSE NoImage

\* line 655
InLoop == emfPc = "scan" /\ pos < Len(emf_data) - 8

\* lines 676, 687
ReturnImage ==
    /\ InLoop
    /\ Found # NoImage
    /\ emf_result' = Found
    /\ emfPc' = "returned"
    /\ UNCHANGED <<emf_data, pos, emfOthers>>

\* a variant of the test at line 689 without the zero-length guard
BreakScan_EofOnly ==
    /\ InLoop
    /\ Found = NoImage
    /\ record_type = EMR_EOF
    /\ emf_result' = NoImage
    /\ emfPc' = "returned"
    /\ UNCHANGED <<emf_data, pos, emfOthers>>

\* lines 689-690, 693
BreakScan ==
    /\ InLoop
    /\ Found = NoImage
    /\ record_type = EMR_EOF \/ record_size = 0
    /\ emf_result' = NoImage
    /\ emfPc' = "returned"
    /\ UNCHANGED <<emf_data, pos, emfOthers>>

\* line 691
NextRecord ==
    /\ InLoop
    /\ Found = NoImage
    /\ record_type # EMR_EOF /\ record_size # 0
    /\ pos' = pos + record_size
    /\ UNCHANGED <<emf_data, emf_result, emfPc, emfOthers>>

\* lines 655, 693: the loop condition fails
EndOfData ==
    /\ emfPc = "scan"
    /\ ~(pos < Len(emf_data) - 8)
    /\ emf_result' = NoImage
    /\ emfPc' = "returned"
    /\ UNCHANGED <<emf_data, pos, emfOthers>>

\* the pieces a comment payload is drawn from
Chunks == {jpg_sig, jpg_eoi, <<0>>, <<217>>, png_sig, IEND \o <<0, 0, 0, 0>>}

Pres == {<<0, 0, 0, 0>>, <<255, 216, 255, 217>>}

Payloads ==
    {pre \o id \o Concat(t) : pre \in Pres, id \in {GDIC, EMFPLUS},
                              t \in SeqsUpTo(Chunks, MaxTail)}
        \cup {<<>>, <<0, 0, 0, 0>>}

\* a record with its declared size: the true one, zero, two short, or huge
Record(type, payload, decl) ==
    LE32(type)
        \o (CASE decl = "true" -> LE32(8 + Len(payload))
              [] decl = "zero" -> LE32(0)
              [] decl = "short" -> LE32(6 + Len(payload))
              [] decl = "huge" -> <<255, 255, 255, 255>>)
        \o payload

FirstRecords ==
    {<<>>,
     Record(1, <<0, 0, 0, 0>>, "true"),
     Record(1, <<0, 0, 0, 0>>, "zero"),
     Record(EMR_EOF, <<0, 0, 0, 0>>, "true"),
     Record(EMR_COMMENT, <<0, 0, 0, 0>> \o EMFPLUS \o jpg_sig \o jpg_eoi, "true"),
     Record(EMR_COMMENT, <<0, 0, 0, 0>> \o GDIC \o png_sig \o IEND \o <<0, 0, 0, 0>>, "true"),
     Record(EMR_COMMENT, <<0, 0, 0, 0>> \o GDIC \o jpg_sig, "huge")}

LastRecords ==
    {Record(EMR_COMMENT, pl, d) : pl \in Payloads, d \in {"true", "short", "zero"}}
        \cup {Record(1, pl, "true") : pl \in {<<>>, GDIC \o GDIC \o jpg_sig \o jpg_eoi}}

Trailers == {<<>>, Record(EMR_EOF, <<0, 0, 0, 0>>, "true")}

EmfBuffers == {a \o b \o c : a \in FirstRecords, b \in LastRecords, c \in Trailers} \cup {<<>>}

InitEmf ==
    /\ UiIdle
    /\ MediaIdle
    /\ TextIdle
    /\ OwnerIdle
    /\ SaveIdle
    /\ ImgIdle
    /\ PptxIdle
    /\ WalkIdle
    /\ SecIdle /\ SlideIdle /\ RunsIdle /\ AnimIdle /\ SaIdle
    /\ emf_data \in EmfBuffers
    /\ pos = 0
    /\ emf_result = NoImage
    /\ emfPc = "scan"

NextEmf == ReturnImage \/ BreakScan \/ NextRecord \/ EndOfData

SpecEmf == InitEmf /\ [][NextEmf]_vars

\* The case of C7, read off the buffer: the payload of the record at pos
Payload == Slice(emf_data, pos + 8, pos + U32(emf_data, pos + 4))

SigAt(pl, j) == j + 2 <= Len(pl) /\ SubSeq(pl, j, j + 2) = jpg_sig
EoiAt(pl, e) == e + 1 <= Len(pl) /\ SubSeq(pl, e, e + 1) = jpg_eoi

\* a marked comment payload with a signature and an EOI at a later offset
MarkedJpeg(pl) ==
    /\ Len(pl) >= 8 /\ SubSeq(pl, 5, 8) = GDIC
    /\ \E j \in 1..Len(pl) : SigAt(pl, j) /\ \E e \in (j + 1)..Len(pl) : EoiAt(pl, e)

\* from the first signature to the nearest EOI after its first byte
JpegSlice(pl) ==
    LET j == CHOOSE x \in 1..Len(pl) : SigAt(pl, x) /\ \A y \in 1..(x - 1) : ~SigAt(pl, y)
        e == CHOOSE x \in (j + 1)..Len(pl) :
                 EoiAt(pl, x) /\ \A y \in (j + 1)..(x - 1) : ~EoiAt(pl, y)
    IN  SubSeq(pl, j, e + 1)

ReachesComment == InLoop /\ U32(emf_data, pos) = EMR_COMMENT

JpegReturned(pl) ==
    /\ emfPc' = "returned"
    /\ emf_result' = [data |-> JpegSlice(pl), ext |-> "jpg"]
    /\ Len(emf_result'.data) >= 4
    /\ SubSeq(emf_result'.data, 1, 3) = jpg_sig
    /\ SubSeq(emf_result'.data, Len(emf_result'.data) - 1, Len(emf_result'.data)) = jpg_eoi

MaxPoints == 4

Pt(type, text, icon) == [type |-> type, text |-> text, icon |-> icon]
Cxn(type, src, dst) == [type |-> type, src |-> src, dst |-> dst]
Graph(pts, cs) == [points |-> pts, cxns |-> cs]

IdsOf(pts, types) == {i \in DOMAIN pts : pts[i].type \in types}

\* the first point of a document: its doc point, or a node when it has none
FirstExt(g) ==
    IF g.points # <<>> THEN {}
    ELSE {Graph(<<Pt("doc", FALSE, FALSE)>>, <<>>), Graph(<<Pt("node", TRUE, FALSE)>>, <<>>)}

\* one more data point: a node with text, with neither text nor icon, or
\* with an icon of its own only; below the doc point, below the node before
\* it, or attached to nothing
DataExt(g) ==
    LET j == Len(g.points) + 1
        above == {i \in DOMAIN g.points :
                     \/ i = 1 /\ g.points[i].type = "doc"
                     \/ i = j - 1 /\ g.points[i].type = "node"}
    IN  IF g.points = <<>> \/ IdsOf(g.points, {"pres"}) # {} THEN {}
        ELSE {Graph(Append(g.points, Pt("node", f[1], f[2])),
                    IF par = 0 THEN g.cxns ELSE Append(g.cxns, Cxn("parOf", par, j))) :
                f \in {<<TRUE, FALSE>>, <<FALSE, FALSE>>, <<FALSE, TRUE>>},
                par \in above \cup {0}}

\* one more presentation point: mapped to a data point by a presOf
\* connection, or unmapped; below an earlier presentation point or below none
PresExt(g) ==
    LET j == Len(g.points) + 1
        maps == {<<>>} \cup {<<Cxn("presOf", d, j)>> : d \in IdsOf(g.points, {"doc", "node"})}
        pars == {<<>>} \cup {<<Cxn("presParOf", vp, j)>> : vp \in IdsOf(g.points, {"pres"})}
    IN  IF g.points = <<>> THEN {}
        ELSE {Graph(Append(g.points, Pt("pres", FALSE, ic)), g.cxns \o mp \o pr) :
                ic \in BOOLEAN, mp \in maps, pr \in pars}

\* three points wired in any way by two connections or fewer: cycles of
\* parOf and of the presentation graph, a point mapped to itself, a data
\* point that is itself mapped, a presAssocID overriding a presOf
WiredIds == {1, 2, 3}

AnyPoints ==
    {<<Pt(t1, TRUE, i1), Pt(t2, TRUE, i2), Pt(t3, TRUE, i3)>> :
        t1 \in {"doc", "node"}, t2 \in {"node", "pres"}, t3 \in {"node", "pres"},
        i1 \in BOOLEAN, i2 \in BOOLEAN, i3 \in BOOLEAN}

AnyCxns ==
    SeqsUpTo({Cxn(ty, a, b) : ty \in {"parOf", "presOf", "presParOf", "assoc"},
                              a \in WiredIds, b \in WiredIds}, 2)

\* line 493: children_ids of a point, in connection order
children_ids(mid) ==
    LET own(c) == c.type = "parOf" /\ c.src = mid
        sel == SelectSeq(cxns, own)
    IN  [k \in DOMAIN sel |-> sel[k].dst]

\* lines 471-474 with 493
NodeDict(mid) ==
    [type |-> points[mid].type, text |-> points[mid].text,
     children_ids |-> children_ids(mid),
     icon |-> IF points[mid].icon THEN mid ELSE 0,
     icon_alt |-> IF points[mid].icon THEN mid ELSE 0]

\* lines 482-485: the first doc point, 0 for None
data_root_id ==
    LET docs == {i \in DOMAIN points : points[i].type = "doc"}
    IN  IF docs = {} THEN 0 ELSE CHOOSE i \in docs : \A j \in docs : i <= j

\* the src of the last connection of a type into dst, 0 when there is none
LastInto(type, dst) ==
    LET at == {k \in DOMAIN cxns : cxns[k].type = type /\ cxns[k].dst = dst}
    IN  IF at = {} THEN 0 ELSE cxns[CHOOSE k \in at : \A j \in at : j <= k].src

\* lines 495, 501-507: 0 when the key is absent
visual_to_data(vid) ==
    IF LastInto("assoc", vid) # 0 THEN LastInto("assoc", vid)
    ELSE LastInto("presOf", vid)

\* line 497
visual_parent(vid) == LastInto("presParOf", vid)

\* line 498
visual_children(parent) ==
    LET own(c) == c.type = "presParOf" /\ c.src = parent
        sel == SelectSeq(cxns, own)
    IN  [k \in DOMAIN sel |-> sel[k].dst]

\* lines 515-518, 522-525: the key is mapped, and not to the data root
MapsToData(vid) == visual_to_data(vid) # 0 /\ visual_to_data(vid) # data_root_id

RECURSIVE owner_walk(_, _)
\* lines 511-527: the while loop, curr and visited
owner_walk(curr, visited) ==
    IF curr = 0 \/ curr \in visited THEN 0
    ELSE IF MapsToData(curr) THEN visual_to_data(curr)
    ELSE LET parent == visual_parent(curr)
             sibs == IF parent = 0 THEN <<>> ELSE visual_children(parent)
             hits == {k \in DOMAIN sibs : sibs[k] # curr /\ MapsToData(sibs[k])}
         IN  IF hits # {}
             THEN visual_to_data(sibs[CHOOSE k \in hits : \A j \in hits : k <= j])
             ELSE owner_walk(parent, visited \cup {curr})

\* a variant of find_data_owner that looks at the point itself only
find_data_owner_SelfOnly(vid) == IF MapsToData(vid) THEN visual_to_data(vid) ELSE 0

\* lines 510-527
find_data_owner(vid) == owner_walk(vid, {})

\* a variant of the loop body at lines 530-537 without the test of line 533
ReassignAt_Overwrites(nm, mid) ==
    LET owner_id == find_data_owner(mid)
    IN  IF /\ nm[mid].icon # 0
           /\ owner_id # 0 /\ owner_id # mid /\ owner_id \in DOMAIN nm
        THEN [nm EXCEPT ![owner_id].icon = nm[mid].icon,
                        ![owner_id].icon_alt = nm[mid].icon_alt,
                        ![mid].icon = 0,
                        ![mid].icon_alt = 0]
        ELSE nm

\* lines 530-537: the loop body for the entry mid
ReassignAt(nm, mid) ==
    LET owner_id == find_data_owner(mid)
    IN  IF /\ nm[mid].icon # 0
           /\ owner_id # 0 /\ owner_id # mid /\ owner_id \in DOMAIN nm
           /\ nm[owner_id].icon = 0
        THEN [nm EXCEPT ![owner_id].icon = nm[mid].icon,
                        ![owner_id].icon_alt = nm[mid].icon_alt,
                        ![mid].icon = 0,
                        ![mid].icon_alt = 0]
        ELSE nm

\* a variant of the test at line 546 that keeps every node
Keeps_All(node) == TRUE

\* line 546, 573: text or icon
Keeps(node) == node.text \/ node.icon # 0

\* lines 543-547: build_node does not return None
Emits(nm, mid) == mid \in DOMAIN nm /\ nm[mid].type = "node" /\ Keeps(nm[mid])

RECURSIVE Diverges(_, _, _)
\* build_node(mid) never returns: an emitted node is its own descendant, the
\* recursion ends in RecursionError
Diverges(nm, mid, path) ==
    /\ Emits(nm, mid)
    /\ \/ mid \in path
       \/ \E k \in DOMAIN nm[mid].children_ids :
              Diverges(nm, nm[mid].children_ids[k], path \cup {mid})

RECURSIVE build_node(_, _, _)
RECURSIVE build_nodes(_, _, _)
\* a variant of build_node that passes its own level on to the children
build_node_SameLevel(nm, mid, level) ==
    IF ~Emits(nm, mid) THEN <<>>
    ELSE <<[id |-> mid, text |-> nm[mid].text, level |-> level,
            children |-> build_nodes(nm, nm[mid].children_ids, level),
            icon |-> nm[mid].icon, icon_alt |-> nm[mid].icon_alt]>>

\* lines 542-560: <<>> for None, else the one-element list of the result
build_node(nm, mid, level) ==
    IF ~Emits(nm, mid) THEN <<>>
    ELSE <<[id |-> mid, text |-> nm[mid].text, level |-> level,
            children |-> build_nodes(nm, nm[mid].children_ids, level + 1),
            icon |-> nm[mid].icon, icon_alt |-> nm[mid].icon_alt]>>

\* lines 556-559, 565-568: the results of the ids that give one, in order
build_nodes(nm, ids, level) ==
    IF ids = <<>> THEN <<>>
    ELSE build_node(nm, Head(ids), level) \o build_nodes(nm, Tail(ids), level)

\* lines 563-568
Tree(nm) ==
    IF data_root_id # 0 THEN build_nodes(nm, nm[data_root_id].children_ids, 0)
    ELSE <<>>

TreeDiverges(nm) ==
    /\ data_root_id # 0
    /\ \E k \in DOMAIN nm[data_root_id].children_ids :
           Diverges(nm, nm[data_root_id].children_ids[k], {})

RECURSIVE FlatFrom_TextOnly(_, _)
\* a variant of the fallback at lines 572-581 that lists the points with text only
FlatFrom_TextOnly(nm, mid) ==
    IF mid > Len(points) THEN <<>>
    ELSE (IF nm[mid].type = "node" /\ nm[mid].text
          THEN <<[id |-> mid, text |-> nm[mid].text, level |-> 0, children |-> <<>>,
                  icon |-> nm[mid].icon, icon_alt |-> nm[mid].icon_alt]>>
          ELSE <<>>) \o FlatFrom_TextOnly(nm, mid + 1)

RECURSIVE FlatFrom(_, _)
\* lines 572-581
FlatFrom(nm, mid) ==
    IF mid > Len(points) THEN <<>>
    ELSE (IF nm[mid].type = "node" /\ (nm[mid].text \/ nm[mid].icon # 0)
          THEN <<[id |-> mid, text |-> nm[mid].text, level |-> 0, children |-> <<>>,
                  icon |-> nm[mid].icon, icon_alt |-> nm[mid].icon_alt]>>
          ELSE <<>>) \o FlatFrom(nm, mid + 1)

\* lines 438-439: the document has one more point, with its connections; a
\* document laid out as an authoring tool does, the doc point (if any)
\* first, then the data points, parents before children, then the
\* presentation points
ReadPoint ==
    /\ saPc = "read"
    /\ Len(points) < MaxPoints
    /\ \E g \in FirstExt(Graph(points, cxns)) \cup DataExt(Graph(points, cxns))
                  \cup PresExt(Graph(points, cxns)) :
           points' = g.points /\ cxns' = g.cxns
    /\ UNCHANGED <<node_map, sa_idx, nodes, saPc, saOthers>>

\* lines 442-507
BuildNodeMap ==
    /\ saPc \in {"read", "start"}
    /\ node_map' = [mid \in DOMAIN points |-> NodeDict(mid)]
    /\ saPc' = "reassign"
    /\ UNCHANGED <<points, cxns, sa_idx, nodes, saOthers>>

\* lines 529-537: one entry of node_map.items()
ReassignStep ==
    /\ saPc = "reassign"
    /\ sa_idx < Len(points)
    /\ node_map' = ReassignAt(node_map, sa_idx + 1)
    /\ sa_idx' = sa_idx + 1
    /\ UNCHANGED <<points, cxns, nodes, saPc, saOthers>>

Reassigned == saPc = "reassign" /\ sa_idx = Len(points)

\* lines 563-568, 604-608: the doc-rooted tree has nodes
EmitTree ==
    /\ Reassigned
    /\ ~TreeDiverges(node_map)
    /\ Tree(node_map) # <<>>
    /\ nodes' = Tree(node_map)
    /\ saPc' = "block"
    /\ UNCHANGED <<points, cxns, node_map, sa_idx, saOthers>>

\* lines 570-581, 604-608: it has none, the flat list has
EmitFallback ==
    /\ Reassigned
    /\ ~TreeDiverges(node_map)
    /\ Tree(node_map) = <<>>
    /\ FlatFrom(node_map, 1) # <<>>
    /\ nodes' = FlatFrom(node_map, 1)
    /\ saPc' = "block"
    /\ UNCHANGED <<points, cxns, node_map, sa_idx, saOthers>>

\* lines 583-584
ReturnNone ==
    /\ Reassigned
    /\ ~TreeDiverges(node_map)
    /\ Tree(node_map) = <<>>
    /\ FlatFrom(node_map, 1) = <<>>
    /\ saPc' = "none"
    /\ UNCHANGED <<points, cxns, node_map, sa_idx, nodes, saOthers>>

\* lines 557, 610-612: the recursion does not end, the handler returns None
RaiseRecursion ==
    /\ Reassigned
    /\ TreeDiverges(node_map) = TRUE
    /\ saPc' = "raised"
    /\ UNCHANGED <<points, cxns, node_map, sa_idx, nodes, saOthers>>

\* lines 431-434, 610-612: the data part is no well-formed XML, fromstring
\* raises before a point is read and the handler returns None
RaiseUnreadable ==
    /\ saPc = "read"
    /\ points = <<>>
    /\ saPc' = "raised"
    /\ UNCHANGED <<points, cxns, node_map, sa_idx, nodes, saOthers>>

InitSmartArt ==
    /\ UiIdle
    /\ MediaIdle
    /\ TextIdle
    /\ OwnerIdle
    /\ SaveIdle
    /\ ImgIdle
    /\ PptxIdle
    /\ WalkIdle
    /\ SecIdle /\ SlideIdle /\ RunsIdle /\ AnimIdle /\ EmfIdle
    /\ \/ points = <<>> /\ cxns = <<>> /\ saPc = "read"
       \/ points \in AnyPoints /\ cxns \in AnyCxns /\ saPc = "start"
    /\ node_map = <<>>
    /\ sa_idx = 0
    /\ nodes = <<>>

NextSmartArt ==
    \/ ReadPoint \/ BuildNodeMap \/ ReassignStep
    \/ EmitTree \/ EmitFallback \/ ReturnNone \/ RaiseRecursion
    \/ RaiseUnreadable

SpecSmartArt == InitSmartArt /\ [][NextSmartArt]_vars

RECURSIVE ReassignFrom(_, _)
\* lines 529-537: the loop over the entries mid, mid + 1, ...
ReassignFrom(nm, mid) ==
    IF mid > Len(points) THEN nm ELSE ReassignFrom(ReassignAt(nm, mid), mid + 1)

RECURSIVE AllEntries(_)
\* the entries of an emitted list, at every depth
AllEntries(es) ==
    IF es = <<>> THEN {}
    ELSE {Head(es)} \cup AllEntries(Head(es).children) \cup AllEntries(Tail(es))

Returned == saPc \in {"block", "none", "raised"}

\* C4: every node extract_smart_art emits, at any depth of the tree and in
\* the flat fallback list, has non-empty text or a non-null icon.
C4_EmittedNodesHaveTextOrIcon ==
    \A e \in AllEntries(nodes) : e.text \/ e.icon # 0

\* C4 witness: the tree holds, below a top-level node, a node without text
\* that is emitted for the icon it received from a presentation point
C4_Witness ==
    /\ saPc = "block"
    /\ \E e \in AllEntries(nodes) :
          e.level >= 1 /\ ~e.text /\ e.icon # 0 /\ e.icon # e.id

\* C5: after the re-association pass every extracted icon is held by
\* exactly one node and no node holds anything else, and a second pass over
\* the resulting map changes nothing.
C5_ReassociationIdempotent ==
    (Reassigned \/ Returned) =>
        /\ \A i \in DOMAIN points :
              points[i].icon => Cardinality({m \in DOMAIN node_map : node_map[m].icon = i}) = 1
        /\ \A m \in DOMAIN node_map :
              node_map[m].icon # 0 => points[node_map[m].icon].icon
        /\ ReassignFrom(node_map, 1) = node_map

RECURSIVE WalkUp(_, _)
\* the visual point and its visual_parent ancestors, nearest first
WalkUp(curr, seen) ==
    IF curr = 0 \/ curr \in seen THEN <<>>
    ELSE <<curr>> \o WalkUp(visual_parent(curr), seen \cup {curr})

\* a point, then the other children of its visual parent
SelfThenSiblings(v) ==
    LET other(x) == x # v
    IN  <<v>> \o (IF visual_parent(v) = 0 THEN <<>>
                  ELSE SelectSeq(visual_children(visual_parent(v)), other))

\* the owner of C9: the first non-root data id found walking up from v,
\* at each level on the point itself, then on its siblings; 0 for none
Owner(v) ==
    LET up == WalkUp(v, {})
        cand == Concat([k \in DOMAIN up |-> SelfThenSiblings(up[k])])
        good == {k \in DOMAIN cand : MapsToData(cand[k])}
    IN  IF good = {} THEN 0
        ELSE visual_to_data(cand[CHOOSE k \in good : \A j \in good : k <= j])

\* the graph of C9: doc, nodes A and B below it, a visual point with an
\* icon mapped to B
IsScenario ==
    /\ Len(points) = 4
    /\ points[1].type = "doc"
    /\ points[2].type = "node" /\ ~points[2].icon
    /\ points[3].type = "node" /\ ~points[3].icon
    /\ points[4] = Pt("pres", FALSE, TRUE)
    /\ cxns = <<Cxn("parOf", 1, 2), Cxn("parOf", 1, 3), Cxn("presOf", 3, 4)>>

ScenarioResult ==
    /\ saPc = "block"
    /\ Len(nodes) = 2
    /\ nodes[1].id = 2 /\ nodes[1].icon = 0
    /\ nodes[2].id = 3 /\ nodes[2].icon = 4

\* C9 as stated: the icon of every visual point that has an owning data
\* node is emitted on that node; no visual point is emitted; the scenario graph gives
\* two top-level nodes with the icon on B.
C9_IconEmittedOnOwner ==
    Returned =>
        /\ \A v \in DOMAIN points :
              (/\ points[v].type = "pres" /\ points[v].icon
               /\ Owner(v) # 0 /\ points[Owner(v)].type = "node") =>
                  \E e \in AllEntries(nodes) : e.id = Owner(v) /\ e.icon = v
        /\ \A e \in AllEntries(nodes) : points[e.id].type # "pres"
        /\ IsScenario => ScenarioResult

\* the step of the re-association loop at a visual point v
AtVisualPoint(v) ==
    /\ saPc = "reassign" /\ sa_idx < Len(points) /\ sa_idx' = sa_idx + 1
    /\ v = sa_idx + 1
    /\ points[v].type = "pres"

IconMoves(v, o) ==
    /\ node_map'[o].icon = node_map[v].icon
    /\ node_map'[v].icon = 0
    /\ \A m \in DOMAIN node_map \ {v, o} : node_map'[m].icon = node_map[m].icon

\* C9 as amended: when the loop reaches a visual point that holds an icon,
\* the icon moves to the owner if the owner is another point and holds no
\* icon at that moment, and stays where it is otherwise; every emitted node
\* is a point of type node with the icon its map entry holds after the loop;
\* the scenario graph with text on A gives two top-level nodes with the icon
\* on B.
C9_IconMovesToFreeOwner ==
    /\ [][\A v \in DOMAIN points : AtVisualPoint(v) =>
             IF node_map[v].icon # 0 /\ Owner(v) \notin {0, v}
                    /\ node_map[Owner(v)].icon = 0
             THEN IconMoves(v, Owner(v))
             ELSE node_map' = node_map]_vars
    /\ [](Returned =>
             /\ \A e \in AllEntries(nodes) :
                   points[e.id].type = "node" /\ e.icon = node_map[e.id].icon
             /\ IsScenario /\ points[2].text => ScenarioResult)

\* C9 witness: an emitted node carries the icon of a visual point that has
\* no mapping of its own, the owner having been found further up the walk
C9_Witness ==
    /\ saPc = "block"
    /\ \E e \in AllEntries(nodes) :
          /\ e.icon # 0 /\ e.icon # e.id
          /\ points[e.icon].type = "pres"
          /\ ~MapsToData(e.icon)
          /\ Owner(e.icon) = e.id

RECURSIVE DataBelow(_, _)
\* the data nodes below the points ids along parOf connections, through
\* nodes with or without text and icon
DataBelow(ids, seen) ==
    LET fresh == {i \in Range(ids) : i \notin seen /\ i \in DOMAIN node_map
                                        /\ node_map[i].type = "node"}
    IN  IF fresh = {} THEN {}
        ELSE fresh \cup UNION {DataBelow(node_map[i].children_ids, seen \cup fresh) :
                                  i \in fresh}

\* C20: pruning removes the empty node only: every data node below the doc
\* point that has text or an icon is emitted, also below a node that has
\* neither, and what is dropped is a node without text and icon.
C20_PruningKeepsSubtree ==
    (saPc = "block" /\ data_root_id # 0) =>
        \A p \in DataBelow(node_map[data_root_id].children_ids, {}) :
            Keeps(node_map[p]) => \E e \in AllEntries(nodes) : e.id = p

(***************************************************************************)
(* process_slide on two storage orders of the same shapes.                 *)
(*                                                                         *)
(* A stored shape is [name, top, left, sh]: name is shape.name (it shows   *)
(* in an image block's alt and stands for the shape's text in a text       *)
(* block), top and left are <<>> for None and <<v>> for the value v, sh is *)
(* the record the dispatch reads.  Run 1 and run 2 read the same shapes in *)
(* two storage orders.                                                     *)
(***************************************************************************)
MaxWalkShapes == 2

StorageRuns == {1, 2}

WalkKinds == {[NoShape EXCEPT !.image = "ok"], [NoShape EXCEPT !.text = "one0"]}

StoredShapes(name) ==
    [name : {name}, top : {<<>>, <<0>>, <<1>>}, left : {<<>>, <<1>>}, sh : WalkKinds]

\* the stored lists of n shapes named 1..n
Storages == UNION {{st \in [1..n -> UNION {StoredShapes(i) : i \in 1..n}] :
                       \A i \in 1..n : st[i].name = i} : n \in 0..MaxWalkShapes}

StorageOrders(st) ==
    {[i \in DOMAIN st |-> st[f[i]]] :
        f \in {g \in [DOMAIN st -> DOMAIN st] : \A i, j \in DOMAIN st : g[i] = g[j] => i = j}}

\* lines 919-920: the key of the sort, None counting as 0
sort_key(s) == <<IF s.top # <<>> THEN s.top[1] ELSE 0,
                 IF s.left # <<>> THEN s.left[1] ELSE 0>>

\* tuple comparison of two keys
KeyLess(a, b) == a[1] < b[1] \/ (a[1] = b[1] /\ a[2] < b[2])

RECURSIVE InsertStable(_, _)
\* x goes behind every element whose key is not greater than its own
InsertStable(x, s) ==
    IF s = <<>> THEN <<x>>
    ELSE IF KeyLess(sort_key(x), sort_key(Head(s))) THEN <<x>> \o s
    ELSE <<Head(s)>> \o InsertStable(x, Tail(s))

RECURSIVE sort_by_position(_)
\* lines 918-921: list.sort(key=...) is stable, equal keys keep their order
sort_by_position(st) ==
    IF st = <<>> THEN <<>>
    ELSE InsertStable(st[Len(st)], sort_by_position(SubSeq(st, 1, Len(st) - 1)))

\* a block together with what it carries of its shape (alt, text)
BlocksOf(s, idx) ==
    LET out == DispatchShape(s.sh, idx, "")
    IN  [i \in DOMAIN out.blocks |-> [block |-> out.blocks[i], alt |-> s.name]]

\* lines 917-921
SortShapes(r) ==
    /\ walkPc[r] = "sort"
    /\ shapes' = [shapes EXCEPT ![r] = sort_by_position(slide_shapes[r])]
    /\ walkPc' = [walkPc EXCEPT ![r] = "walk"]
    /\ UNCHANGED <<slide_shapes, walk_idx, walk_content, walkOthers>>

\* lines 924-1018: one iteration of the loop
WalkShape(r) ==
    /\ walkPc[r] = "walk"
    /\ walk_idx[r] < Len(shapes[r])
    /\ walk_content' = [walk_content EXCEPT
           ![r] = @ \o BlocksOf(shapes[r][walk_idx[r] + 1], walk_idx[r])]
    /\ walk_idx' = [walk_idx EXCEPT ![r] = @ + 1]
    /\ UNCHANGED <<slide_shapes, shapes, walkPc, walkOthers>>

\* lines 1023-1039
ReturnContent(r) ==
    /\ walkPc[r] = "walk"
    /\ walk_idx[r] = Len(shapes[r])
    /\ walkPc' = [walkPc EXCEPT ![r] = "done"]
    /\ UNCHANGED <<slide_shapes, shapes, walk_idx, walk_content, walkOthers>>

InitWalk ==
    /\ UiIdle
    /\ MediaIdle
    /\ TextIdle
    /\ OwnerIdle
    /\ SaveIdle
    /\ ImgIdle
    /\ PptxIdle
    /\ SecIdle /\ SlideIdle /\ RunsIdle /\ AnimIdle /\ EmfIdle /\ SaIdle
    /\ \E st \in Storages : \E other \in StorageOrders(st) : slide_shapes = <<st, other>>
    /\ shapes = <<<<>>, <<>>>>
    /\ walk_idx = <<0, 0>>
    /\ walk_content = <<<<>>, <<>>>>
    /\ walkPc = <<"sort", "sort">>

NextWalk == \E r \in StorageRuns : SortShapes(r) \/ WalkShape(r) \/ ReturnContent(r)

SpecWalk == InitWalk /\ [][NextWalk]_vars

\* the key of the shape a block of run 1 comes from
KeyOfBlock(b) == sort_key(slide_shapes[1][b.alt])

\* C12: the blocks of a slide follow ascending (top, left) of their shapes,
\* None counting as 0, and two storage orders of the same shapes give the
\* same content, image file names included.
C12_ContentIndependentOfStorage ==
    (\A r \in StorageRuns : walkPc[r] = "done") =>
        /\ \A r \in StorageRuns : \A i, j \in DOMAIN walk_content[r] :
               i < j => ~KeyLess(KeyOfBlock(walk_content[r][j]),
                                 KeyOfBlock(walk_content[r][i]))
        /\ walk_content[1] = walk_content[2]

(***************************************************************************)
(* process_slide at a shape that holds a diagram: extract_smart_art runs   *)
(* on the diagram's graph and the loop body goes on with what it returns.  *)
(* The shape is a graphic frame (or a group around one): it has no image,  *)
(* no table and no text frame; extract_video and extract_auto_shape may    *)
(* each give a block for it.                                               *)
(***************************************************************************)
DiagramFrame(video, auto, smart) ==
    [NoShape EXCEPT !.video = video, !.auto = auto, !.smart = smart]

\* lines 924-1018 for the frame, once extract_smart_art has returned
DispatchDiagramFrame ==
    /\ slidePc = "smartart"
    /\ saPc \in {"block", "none", "raised"}
    /\ \E video, auto \in BOOLEAN :
          LET s == DiagramFrame(video, auto, IF saPc = "block" THEN "block" ELSE "fail")
              out == DispatchShape(s, shape_idx, title)
          IN  /\ shape' = s
              /\ content' = content \o out.blocks
              /\ title' = out.title
    /\ shape_idx' = shape_idx + 1
    /\ slidePc' = "fetch"
    /\ UNCHANGED <<slide_result, slideOthers>>

InitDiagramFrame ==
    /\ UiIdle
    /\ MediaIdle
    /\ TextIdle
    /\ OwnerIdle
    /\ SaveIdle
    /\ ImgIdle
    /\ PptxIdle
    /\ SecIdle /\ RunsIdle /\ AnimIdle /\ EmfIdle /\ WalkIdle
    /\ shape = NoShape
    /\ shape_idx = 0
    /\ content = <<>>
    /\ title = ""
    /\ slide_result = <<>>
    /\ slidePc = "smartart"
    /\ \/ points = <<>> /\ cxns = <<>> /\ saPc = "read"
       \/ points \in AnyPoints /\ cxns \in AnyCxns /\ saPc = "start"
    /\ node_map = <<>>
    /\ sa_idx = 0
    /\ nodes = <<>>

NextDiagramFrame == NextSmartArt \/ DispatchDiagramFrame

SpecDiagramFrame == InitDiagramFrame /\ [][NextDiagramFrame]_vars

\* C13: when the traversal of a diagram raises, extract_smart_art returns
\* None with no node emitted, and process_slide goes on with the auto-shape
\* and text steps for the same shape: after a video block, if any, the shape
\* gives its ShapeBlock when it is a recognised auto shape and nothing
\* when it is not (the frame has no text frame), and never a diagram block.
C13_TraversalFailureFallsThrough ==
    /\ [](saPc = "raised" => nodes = <<>>)
    /\ [][(saPc = "raised" /\ slidePc = "smartart" /\ slidePc' # "smartart") =>
             /\ slidePc' = "fetch"
             /\ NonVideo(NewBlocks) = (IF shape'.auto THEN <<ShapeBlock>> ELSE <<>>)
             /\ content' = content \o NewBlocks]_vars

\* C13 witness: build_node ran into a cycle of parOf connections, nothing
\* of the diagram was emitted and the frame gave its ShapeBlock
C13_Witness ==
    /\ saPc = "raised"
    /\ points # <<>>
    /\ TreeDiverges(node_map) = TRUE
    /\ slidePc = "fetch"
    /\ content = <<ShapeBlock>>

(***************************************************************************)
(* extract_pptx: the run as a whole and what it leaves on disk.            *)
(*                                                                         *)
(* The input is [exists, readable, deck]: whether the path exists, whether *)
(* Presentation() can open it, and per slide how many media files          *)
(* process_slide writes for it and whether it raises (see C3).             *)
(***************************************************************************)
MaxDeckSlides == 3
MaxSlideFiles == 2

DeckSlides == [files : 0..MaxSlideFiles, raises : BOOLEAN]

InputFiles ==
    {[exists |-> FALSE, readable |-> FALSE, deck |-> <<>>],
     [exists |-> TRUE, readable |-> FALSE, deck |-> <<>>]}
        \cup {[exists |-> TRUE, readable |-> TRUE, deck |-> d] :
                 d \in SeqsUpTo(DeckSlides, MaxDeckSlides)}

\* lines 1144-1146
ExitNotFound ==
    /\ pptxPc = "start"
    /\ ~input_file.exists
    /\ pptxPc' = "exit"
    /\ UNCHANGED <<input_file, media_dir, media_files, slide_no, presentation_json,
                   pptxOthers>>

\* lines 1148-1151
MakeMediaDir ==
    /\ pptxPc = "start"
    /\ input_file.exists
    /\ media_dir' = "created"
    /\ pptxPc' = "load"
    /\ UNCHANGED <<input_file, media_files, slide_no, presentation_json, pptxOthers>>

\* line 1159
LoadPresentation ==
    /\ pptxPc = "load"
    /\ input_file.readable
    /\ pptxPc' = "slides"
    /\ UNCHANGED <<input_file, media_dir, media_files, slide_no, presentation_json,
                   pptxOthers>>

\* line 1159: Presentation() raises, nothing catches it
LoadRaises ==
    /\ pptxPc = "load"
    /\ ~input_file.readable
    /\ pptxPc' = "raised"
    /\ UNCHANGED <<input_file, media_dir, media_files, slide_no, presentation_json,
                   pptxOthers>>

\* lines 1163-1166
ProcessSlide ==
    /\ pptxPc = "slides"
    /\ slide_no < Len(input_file.deck)
    /\ ~input_file.deck[slide_no + 1].raises
    /\ media_files' = media_files + input_file.deck[slide_no + 1].files
    /\ slide_no' = slide_no + 1
    /\ UNCHANGED <<input_file, media_dir, presentation_json, pptxPc, pptxOthers>>

\* line 1165: process_slide raises after it wrote some of the slide's files
ProcessSlideRaises ==
    /\ pptxPc = "slides"
    /\ slide_no < Len(input_file.deck)
    /\ input_file.deck[slide_no + 1].raises
    /\ \E written \in 0..input_file.deck[slide_no + 1].files :
           media_files' = media_files + written
    /\ pptxPc' = "raised"
    /\ UNCHANGED <<input_file, media_dir, slide_no, presentation_json, pptxOthers>>

\* lines 1171-1196
WriteJson ==
    /\ pptxPc = "slides"
    /\ slide_no = Len(input_file.deck)
    /\ presentation_json' = "written"
    /\ pptxPc' = "done"
    /\ UNCHANGED <<input_file, media_dir, media_files, slide_no, pptxOthers>>

InitPptx ==
    /\ UiIdle
    /\ MediaIdle
    /\ TextIdle
    /\ OwnerIdle
    /\ SaveIdle
    /\ ImgIdle
    /\ SecIdle /\ SlideIdle /\ RunsIdle /\ AnimIdle /\ EmfIdle /\ SaIdle /\ WalkIdle
    /\ input_file \in InputFiles
    /\ media_dir = "absent"
    /\ media_files = 0
    /\ slide_no = 0
    /\ presentation_json = "absent"
    /\ pptxPc = "start"

NextPptx ==
    \/ ExitNotFound \/ MakeMediaDir \/ LoadPresentation \/ LoadRaises
    \/ ProcessSlide \/ ProcessSlideRaises \/ WriteJson

SpecPptx == InitPptx /\ [][NextPptx]_vars

\* C14: when the input is missing or cannot be read as a presentation, the
\* run leaves no presentation.json and no media directory.
C14_FatalWritesNothing ==
    (~input_file.exists \/ ~input_file.readable) =>
        presentation_json = "absent" /\ media_dir = "absent"

(***************************************************************************)
(* extract_image: the image block as the dict json.dump serialises.        *)
(*                                                                         *)
(* A dict is a function from its keys; the string "None" stands for None   *)
(* (JSON null).  A picture is                                              *)
(*   name      shape.name, "" when empty                                   *)
(*   ext       image.ext                                                   *)
(*   embedded  the ext extract_emf_embedded_image returns, "" for None     *)
(*   pillow    Pillow can open and convert the metafile                    *)
(*   writable  open(filepath, 'wb') succeeds                               *)
(*   analysis  what analyze_image returns: <<>> for None, else the         *)
(*             one-element list of the answer, where a key the answer      *)
(*             lacks reads "None" through .get and has_quote is its truth  *)
(***************************************************************************)
Analyses ==
    {<<>>} \cup {<<a>> : a \in [description : {"None", "A chart"}, has_quote : BOOLEAN,
                                 quote_text : {"None", "We ship"},
                                 quote_attribution : {"None", "@sama"}]}

Pictures ==
    [name : {"", "Picture 3"}, ext : {"png", "emf"}, embedded : {"", "jpg"},
     pillow : BOOLEAN, writable : BOOLEAN, analysis : Analyses]

\* lines 705-730: a metafile becomes the embedded raster, else a PNG by
\* Pillow, else stays what it is
ConvertMetafile ==
    /\ imgPc = "start"
    /\ picture.ext \in {"emf", "wmf"}
    /\ img_ext' = IF picture.embedded # "" THEN picture.embedded
                  ELSE IF picture.pillow THEN "png" ELSE picture.ext
    /\ imgPc' = "write"
    /\ UNCHANGED <<picture, picture_idx, ANALYZE_IMAGES, img_file, img_result, imgOthers>>

\* line 706: no metafile
KeepFormat ==
    /\ imgPc = "start"
    /\ picture.ext \notin {"emf", "wmf"}
    /\ img_ext' = picture.ext
    /\ imgPc' = "write"
    /\ UNCHANGED <<picture, picture_idx, ANALYZE_IMAGES, img_file, img_result, imgOthers>>

\* lines 732-736
WriteImageFile ==
    /\ imgPc = "write"
    /\ picture.writable
    /\ img_file' = <<"slide", 1, picture_idx, img_ext>>
    /\ imgPc' = "build"
    /\ UNCHANGED <<picture, picture_idx, ANALYZE_IMAGES, img_ext, img_result, imgOthers>>

\* lines 735, 770-773: open raises, the handler prints a warning, None
ImageWriteFails ==
    /\ imgPc = "write"
    /\ ~picture.writable
    /\ imgPc' = "returned"
    /\ UNCHANGED <<picture, picture_idx, ANALYZE_IMAGES, img_ext, img_file, img_result,
                   imgOthers>>

\* lines 744-747: analysis.get('description'), None without an analysis
description_of(pic, flag) ==
    IF flag /\ pic.analysis # <<>> THEN pic.analysis[1].description ELSE "None"

\* lines 748-750, 764: the quote is taken when has_quote and quote_text are truthy
HasQuote(pic, flag) ==
    /\ flag /\ pic.analysis # <<>>
    /\ pic.analysis[1].has_quote
    /\ pic.analysis[1].quote_text # "None"

\* lines 755-768
image_result(pic, flag, file) ==
    [type |-> "image", src |-> file,
     alt |-> IF pic.name # "" THEN pic.name ELSE "Slide 1 image",
     caption |-> "None",
     description |-> description_of(pic, flag)]
    @@ (IF HasQuote(pic, flag)
        THEN [quote_text |-> pic.analysis[1].quote_text,
              quote_attribution |-> pic.analysis[1].quote_attribution]
        ELSE <<>>)

\* lines 738-768
ReturnImageBlock ==
    /\ imgPc = "build"
    /\ img_result' = <<image_result(picture, ANALYZE_IMAGES, img_file)>>
    /\ imgPc' = "returned"
    /\ UNCHANGED <<picture, picture_idx, ANALYZE_IMAGES, img_ext, img_file, imgOthers>>

InitImage ==
    /\ UiIdle
    /\ MediaIdle
    /\ TextIdle
    /\ OwnerIdle
    /\ SaveIdle
    /\ SecIdle /\ SlideIdle /\ RunsIdle /\ AnimIdle /\ EmfIdle /\ SaIdle /\ WalkIdle
    /\ PptxIdle
    /\ picture \in Pictures
    /\ picture_idx \in 0..1
    /\ ANALYZE_IMAGES \in BOOLEAN
    /\ img_ext = ""
    /\ img_file = <<>>
    /\ img_result = <<>>
    /\ imgPc = "start"

NextImage ==
    \/ ConvertMetafile \/ KeepFormat \/ WriteImageFile \/ ImageWriteFails
    \/ ReturnImageBlock

SpecImage == InitImage /\ [][NextImage]_vars

\* C17: an emitted block holds only fields that are present: none of its
\* fields is null; an image block without analysis has no description and
\* no caption key.
C17_SparseEncoding ==
    img_result # <<>> =>
        LET block == img_result[1]
        IN  /\ \A k \in DOMAIN block \ {"src"} : block[k] # "None"
            /\ ~ANALYZE_IMAGES => {"description", "caption"} \cap DOMAIN block = {}

(***************************************************************************)
(* The review tool: RequestHandler.handle_save of review-server.py.        *)
(*                                                                         *)
(* presentation.json is [metadata, sections]; a slide is [order, title,    *)
(* content]; a block and a result are dicts, functions from their keys to  *)
(* strings, "None" standing for None/null.  An image id is <<order, idx>>  *)
(* for the string "order_idx", <<>> for one int() does not parse.          *)
(***************************************************************************)
MaxSaveBlocks == 2
MaxSaveResults == 2

SaveBlocks ==
    {[type |-> "image", src |-> "./slide_1_0.png"],
     [type |-> "image", src |-> "./slide_1_1.png", description |-> "old",
      category |-> "chart", custom |-> "kept"],
     [type |-> "heading", text |-> "Results"]}

SaveDecks ==
    {[metadata |-> "stats",
      sections |-> <<[title |-> "Main Content",
                      slides |-> <<[order |-> 1, title |-> "Slide 1", content |-> c1],
                                   [order |-> 2, title |-> "Slide 2", content |-> c2]>>]>>] :
        c1, c2 \in SeqsUpTo(SaveBlocks, MaxSaveBlocks)}

SaveAnswers ==
    {<<>>,
     [description |-> "new", category |-> "quote"],
     [description |-> "new", category |-> "quote", transcript |-> "words",
      transcript_usage |-> "full"],
     [description |-> "new", category |-> "quote", quote_text |-> "We ship",
      transcript |-> ""]}

SaveItems ==
    [id : {<<o, i>> : o \in 1..3, i \in 0..(MaxSaveBlocks - 1)} \cup {<<>>},
     result : SaveAnswers]

\* dict.get(key): None for a key the dict lacks
Get(d, key) == IF key \in DOMAIN d THEN d[key] ELSE "None"

\* the truth value of what .get returned
Truthy(v) == v \notin {"None", ""}

\* d[key] = value
Put(d, key, value) == [k \in DOMAIN d \cup {key} |-> IF k = key THEN value ELSE d[k]]

\* find_image_by_id (lines 2113-2131): <<>> for None, else <<section, slide,
\* index>> of the block of the first slide of that order that has the index
find_image_by_id(data, image_id) ==
    IF image_id = <<>> THEN <<>>
    ELSE LET hits == {<<s, k>> \in {<<s, k>> : s \in DOMAIN data.sections,
                                              k \in 1..Len(data.sections[1].slides)} :
                         /\ k \in DOMAIN data.sections[s].slides
                         /\ data.sections[s].slides[k].order = image_id[1]
                         /\ image_id[2] < Len(data.sections[s].slides[k].content)}
         IN  IF hits = {} THEN <<>>
             ELSE LET first == CHOOSE h \in hits : \A g \in hits :
                                   h[1] < g[1] \/ (h[1] = g[1] /\ h[2] <= g[2])
                  IN  <<first[1], first[2], image_id[2] + 1>>

\* lines 1951-1961: the assignments to one block
save_into(content_block, result) ==
    LET c1 == Put(content_block, "description", Get(result, "description"))
        c2 == Put(c1, "category", Get(result, "category"))
        c3 == IF Truthy(Get(result, "transcript"))
              THEN Put(c2, "transcript", Get(result, "transcript")) ELSE c2
        c4 == IF Truthy(Get(result, "transcript_usage"))
              THEN Put(c3, "transcript_usage", Get(result, "transcript_usage")) ELSE c3
    IN  IF Truthy(Get(result, "quote_text"))
        THEN Put(Put(c4, "quote_text", Get(result, "quote_text")),
                 "quote_attribution", Get(result, "quote_attribution"))
        ELSE c4

\* lines 1941-1943
RejectEmptySave ==
    /\ savePc = "start"
    /\ save_results = <<>>
    /\ savePc' = "error400"
    /\ UNCHANGED <<loaded_data, presentation_data, save_results, save_idx, json_file,
                   saveOthers>>

\* line 1945
EnterSaveLoop ==
    /\ savePc = "start"
    /\ save_results # <<>>
    /\ savePc' = "loop"
    /\ UNCHANGED <<loaded_data, presentation_data, save_results, save_idx, json_file,
                   saveOthers>>

\* lines 1945-1961: one item of results
SaveItem ==
    /\ savePc = "loop"
    /\ save_idx < Len(save_results)
    /\ LET it == save_results[save_idx + 1]
           at == find_image_by_id(presentation_data, it.id)
       IN  presentation_data' =
               IF at = <<>> THEN presentation_data
               ELSE [presentation_data EXCEPT
                        !.sections[at[1]].slides[at[2]].content[at[3]] =
                            save_into(@, it.result)]
    /\ save_idx' = save_idx + 1
    /\ UNCHANGED <<loaded_data, save_results, json_file, savePc, saveOthers>>

\* lines 1963-1966
WriteSavedJson ==
    /\ savePc = "loop"
    /\ save_idx = Len(save_results)
    /\ json_file' = presentation_data
    /\ savePc' = "saved"
    /\ UNCHANGED <<loaded_data, presentation_data, save_results, save_idx, saveOthers>>

\* lines 1963-1968: open raises, the file stays as it was
WriteSavedJsonFails ==
    /\ savePc = "loop"
    /\ save_idx = Len(save_results)
    /\ savePc' = "error500"
    /\ UNCHANGED <<loaded_data, presentation_data, save_results, save_idx, json_file,
                   saveOthers>>

InitSave ==
    /\ UiIdle
    /\ MediaIdle
    /\ TextIdle
    /\ OwnerIdle
    /\ SecIdle /\ SlideIdle /\ RunsIdle /\ AnimIdle /\ EmfIdle /\ SaIdle /\ WalkIdle
    /\ PptxIdle /\ ImgIdle
    /\ loaded_data \in SaveDecks
    /\ presentation_data = loaded_data
    /\ json_file = loaded_data
    /\ save_results \in SeqsUpTo(SaveItems, MaxSaveResults)
    /\ save_idx = 0
    /\ savePc = "start"

NextSave ==
    \/ RejectEmptySave \/ EnterSaveLoop \/ SaveItem \/ WriteSavedJson
    \/ WriteSavedJsonFails

SpecSave == InitSave /\ [][NextSave]_vars

EditedFields == {"description", "category", "transcript", "transcript_usage",
                 "quote_text", "quote_attribution"}

\* the request names the block at index i (from 1) of the slide of order o
NamedInRequest(o, i) ==
    \E n \in DOMAIN save_results : save_results[n].id = <<o, i - 1>>

\* the two dicts agree outside the edited fields
SameOutside(old, new) ==
    /\ DOMAIN old \ EditedFields = DOMAIN new \ EditedFields
    /\ \A k \in DOMAIN old \ EditedFields : new[k] = old[k]

\* C18: the file a save rewrites differs from the file loaded only in the
\* six edited fields of the image blocks the request names: the metadata,
\* the sections, the slides and every other block are the same, and so is
\* every other field of the named image blocks.
C18_SavePreservesTheRest ==
    savePc = "saved" =>
        /\ json_file.metadata = loaded_data.metadata
        /\ Len(json_file.sections) = Len(loaded_data.sections)
        /\ \A s \in DOMAIN loaded_data.sections :
              LET old == loaded_data.sections[s]
                  new == json_file.sections[s]
              IN  /\ new.title = old.title
                  /\ Len(new.slides) = Len(old.slides)
                  /\ \A k \in DOMAIN old.slides :
                        /\ new.slides[k].order = old.slides[k].order
                        /\ new.slides[k].title = old.slides[k].title
                        /\ Len(new.slides[k].content) = Len(old.slides[k].content)
                        /\ \A i \in DOMAIN old.slides[k].content :
                              IF /\ old.slides[k].content[i].type = "image"
                                 /\ NamedInRequest(old.slides[k].order, i)
                              THEN SameOutside(old.slides[k].content[i],
                                               new.slides[k].content[i])
                              ELSE new.slides[k].content[i] = old.slides[k].content[i]

\* analyze-existing-images.py, lines 24-37
VALID_CATEGORIES ==
    {"cartoon", "interface_screenshot", "chat_screenshot", "tweet", "quote",
     "academic_paper", "diagram", "chart", "photo_person", "book_cover",
     "product_page", "other"}

\* the blocks of the in-memory presentation, as <<section, slide, index>>
BlockPositions(data) ==
    {<<s, k, i>> \in {<<s, k, i>> : s \in DOMAIN data.sections,
                                   k \in 1..Len(data.sections[1].slides),
                                   i \in 1..MaxSaveBlocks} :
        /\ k \in DOMAIN data.sections[s].slides
        /\ i \in DOMAIN data.sections[s].slides[k].content}

BlockAt(data, at) == data.sections[at[1]].slides[at[2]].content[at[3]]

\* C19: every category value a step of the review tool writes onto a block
\* is a member of the fixed category set; a missing or foreign category is
\* stored as "other".
C19_CategoryInFixedSet ==
    [][\A at \in BlockPositions(presentation_data) :
          LET old == BlockAt(presentation_data, at)
              new == BlockAt(presentation_data', at)
          IN  new # old => /\ "category" \in DOMAIN new
                           /\ new["category"] \in VALID_CATEGORIES]_vars

\* ---------------------------------------------------------------------
\* SmartArt: the flat fallback, the icon transfer, the owner walk, levels
\* ---------------------------------------------------------------------

\* the data points that carry text or an icon after the re-association
DataWithContent ==
    {m \in DOMAIN node_map :
        node_map[m].type = "node" /\ (node_map[m].text \/ node_map[m].icon # 0)}

\* the doc-rooted walk yields zero nodes: no doc point, a doc point without
\* parOf children, or every child pruned
NoDocTree ==
    \/ data_root_id = 0
    \/ \A c \in Range(node_map[data_root_id].children_ids) :
          \/ c \notin DOMAIN node_map
          \/ node_map[c].type # "node"
          \/ ~node_map[c].text /\ node_map[c].icon = 0

\* C21: when the doc-rooted walk yields zero nodes, extract_smart_art emits
\* every data point that carries text or an icon as a flat list of top-level
\* nodes without children, and returns none only when that list is empty too.
C21_FlatFallback ==
    (saPc \in {"block", "none"} /\ NoDocTree) =>
        /\ saPc = "none" <=> DataWithContent = {}
        /\ saPc = "block" =>
              /\ {nodes[k].id : k \in DOMAIN nodes} = DataWithContent
              /\ Len(nodes) = Cardinality(DataWithContent)
              /\ \A k \in DOMAIN nodes :
                    /\ nodes[k].level = 0
                    /\ nodes[k].children = <<>>
                    /\ nodes[k].text = node_map[nodes[k].id].text
                    /\ nodes[k].icon = node_map[nodes[k].id].icon

\* C21 witness: the only child of the doc point is pruned, and the flat list
\* holds a node below it that has an icon and no text
C21_Witness ==
    /\ saPc = "block"
    /\ data_root_id # 0
    /\ node_map[data_root_id].children_ids # <<>>
    /\ NoDocTree
    /\ \E k \in DOMAIN nodes : ~nodes[k].text /\ nodes[k].icon # 0

\* the entry the re-association loop is at
Donor == sa_idx + 1

\* a step of the re-association loop
InReassign == saPc = "reassign" /\ sa_idx < Len(points) /\ sa_idx' = sa_idx + 1

\* C22: first writer wins in the icon transfer: a node that holds an icon
\* never has it overwritten; an icon is moved only onto an owner that has no
\* icon, and after the move the donor's icon and icon_alt are cleared; when
\* the owner already has an icon the donor keeps its own.
C22_FirstWriterWins ==
    [][InReassign =>
         /\ \A m \in DOMAIN node_map :
               node_map[m].icon # 0 => node_map'[m].icon \in {node_map[m].icon, 0}
         /\ \A o \in DOMAIN node_map :
               node_map'[o].icon # node_map[o].icon /\ o # Donor =>
                   /\ node_map[o].icon = 0
                   /\ node_map'[o].icon = node_map[Donor].icon
                   /\ node_map'[Donor].icon = 0
                   /\ node_map'[Donor].icon_alt = 0
         /\ node_map'[Donor].icon # node_map[Donor].icon =>
               \E o \in DOMAIN node_map \ {Donor} :
                   node_map[o].icon = 0 /\ node_map'[o].icon = node_map[Donor].icon
         /\ LET o == find_data_owner(Donor)
            IN  o \in DOMAIN node_map /\ node_map[o].icon # 0 => node_map' = node_map
    ]_vars

\* C22 witness: two points with an icon have the same owner; the owner holds
\* the icon of the first and the second has kept its own
C22_Witness ==
    /\ Reassigned
    /\ \E v \in DOMAIN node_map, w \in DOMAIN node_map :
          /\ v < w
          /\ find_data_owner(v) = find_data_owner(w)
          /\ find_data_owner(v) \in DOMAIN node_map \ {v, w}
          /\ node_map[find_data_owner(v)].icon = v
          /\ node_map[v].icon = 0 /\ node_map[v].icon_alt = 0
          /\ node_map[w].icon = w

\* ---------------------------------------------------------------------
\* find_data_owner step by step (lines 510-527), inside the loop of
\* lines 529-537
\* ---------------------------------------------------------------------
MaxOwnerCxns == 3

\* a doc point, a data node and three presentation points, the first of
\* them with an icon
OwnerPoints ==
    {<<Pt("doc", FALSE, FALSE), Pt("node", TRUE, FALSE),
       Pt("pres", FALSE, TRUE), Pt("pres", FALSE, FALSE), Pt("pres", FALSE, FALSE)>>}

\* presOf connections from the doc point or the node, presParOf connections
\* between presentation points in any shape: chains, siblings, a point that
\* is its own parent, cycles of two and three
OwnerCxns ==
    SeqsUpTo({Cxn("presOf", d, v) : d \in {1, 2}, v \in {3, 4, 5}}
             \cup {Cxn("presParOf", a, b) : a \in {3, 4, 5}, b \in {3, 4, 5}},
             MaxOwnerCxns)

\* a variant of the loop test at line 513 without the visited set
LoopEnds_NoVisited(c, vis) == c = 0

\* line 513, negated: `while curr and curr not in visited` is left
LoopEnds(c, vis) == c = 0 \/ c \in vis

\* lines 529-531: the loop reaches an entry with an icon and calls
\* find_data_owner(mid); line 511-512
CallOwner ==
    /\ saPc = "reassign" /\ ownerPc = "idle"
    /\ sa_idx < Len(points)
    /\ node_map[sa_idx + 1].icon # 0
    /\ owner_curr' = sa_idx + 1
    /\ owner_visited' = {}
    /\ owner_did' = 0
    /\ ownerPc' = "loop"
    /\ UNCHANGED ownerOthers

\* lines 529-530: an entry without icon
SkipEntry ==
    /\ saPc = "reassign" /\ ownerPc = "idle"
    /\ sa_idx < Len(points)
    /\ node_map[sa_idx + 1].icon = 0
    /\ sa_idx' = sa_idx + 1
    /\ UNCHANGED <<points, cxns, node_map, nodes, saPc, ownerVars, reassignOthers>>

\* lines 514-526: one pass of the while body
OwnerStep ==
    /\ ownerPc = "loop"
    /\ ~LoopEnds(owner_curr, owner_visited)
    /\ owner_visited' = owner_visited \cup {owner_curr}
    /\ LET parent == visual_parent(owner_curr)
           sibs == IF parent = 0 THEN <<>> ELSE visual_children(parent)
           hits == {k \in DOMAIN sibs : sibs[k] # owner_curr /\ MapsToData(sibs[k])}
       IN  IF MapsToData(owner_curr)
           THEN /\ owner_did' = visual_to_data(owner_curr)
                /\ ownerPc' = "returned"
                /\ UNCHANGED owner_curr
           ELSE IF hits # {}
           THEN /\ owner_did' = visual_to_data(sibs[CHOOSE k \in hits : \A j \in hits : k <= j])
                /\ ownerPc' = "returned"
                /\ UNCHANGED owner_curr
           ELSE /\ owner_curr' = parent
                /\ UNCHANGED <<owner_did, ownerPc>>
    /\ UNCHANGED ownerOthers

\* lines 513, 527: the loop is left, return None
OwnerExit ==
    /\ ownerPc = "loop"
    /\ LoopEnds(owner_curr, owner_visited)
    /\ owner_did' = 0
    /\ ownerPc' = "returned"
    /\ UNCHANGED <<owner_curr, owner_visited, ownerOthers>>

\* lines 532-537 with the owner_id the call returned
Transfer ==
    /\ ownerPc = "returned"
    /\ LET mid == sa_idx + 1
           owner_id == owner_did
       IN  node_map' =
             IF /\ owner_id # 0 /\ owner_id # mid /\ owner_id \in DOMAIN node_map
                /\ node_map[owner_id].icon = 0
             THEN [node_map EXCEPT ![owner_id].icon = node_map[mid].icon,
                                   ![owner_id].icon_alt = node_map[mid].icon_alt,
                                   ![mid].icon = 0,
                                   ![mid].icon_alt = 0]
             ELSE node_map
    /\ sa_idx' = sa_idx + 1
    /\ ownerPc' = "idle"
    /\ UNCHANGED <<points, cxns, nodes, saPc, owner_curr, owner_visited, owner_did, reassignOthers>>

InitOwner ==
    /\ UiIdle
    /\ MediaIdle
    /\ TextIdle
    /\ SecIdle /\ SlideIdle /\ RunsIdle /\ AnimIdle /\ EmfIdle
    /\ WalkIdle /\ PptxIdle /\ ImgIdle /\ SaveIdle
    /\ OwnerIdle
    /\ points \in OwnerPoints
    /\ cxns \in OwnerCxns
    /\ node_map = [mid \in DOMAIN points |-> NodeDict(mid)]
    /\ sa_idx = 0
    /\ nodes = <<>>
    /\ saPc = "reassign"

NextOwner == CallOwner \/ SkipEntry \/ OwnerStep \/ OwnerExit \/ Transfer

SpecOwner == InitOwner /\ [][NextOwner]_vars /\ WF_vars(NextOwner)

\* the points the walk has looked at for a mapping: the visited ones and
\* the other children of their parents
LookedAt ==
    owner_visited \cup
    {x \in DOMAIN points : \E v \in owner_visited :
        /\ x # v /\ visual_parent(v) # 0
        /\ x \in Range(visual_children(visual_parent(v)))}

\* C23: find_data_owner terminates on every presentation graph, cyclic
\* presParOf edges included: every call returns, each pass of the loop is at
\* a point not visited before, and the call returns no owner when the walk
\* ends without a non-root data id.
C23_OwnerWalkTerminates ==
    /\ (ownerPc = "loop") ~> (ownerPc = "returned")
    /\ [][ownerPc = "loop" /\ (owner_curr' # owner_curr \/ owner_did' # 0) =>
             owner_curr \notin owner_visited /\ owner_visited' = owner_visited \cup {owner_curr}]_vars
    /\ [](ownerPc = "returned" =>
             /\ owner_did = 0 <=> \A x \in LookedAt : ~MapsToData(x)
             /\ owner_did # 0 =>
                   owner_did # data_root_id /\ \E x \in LookedAt : visual_to_data(x) = owner_did)

\* C23 witness: a call has returned no owner after walking round a cycle of
\* presParOf connections through three points
C23_Witness ==
    /\ ownerPc = "returned"
    /\ owner_did = 0
    /\ Cardinality(owner_visited) = 3
    /\ owner_curr \in owner_visited

\* ---------------------------------------------------------------------
\* The record scan of extract_emf_embedded_image as a loop that runs on
\* ---------------------------------------------------------------------

MaxScanRecords == 3

\* short records: a bare header, a record with a payload, a zero-length
\* record, an end-of-file record, a declared size below the header size, a
\* size beyond the buffer
ScanRecords ==
    {Record(1, <<>>, "true"),
     Record(1, <<0, 0, 0, 0>>, "true"),
     Record(1, <<0, 0, 0, 0>>, "zero"),
     Record(EMR_EOF, <<>>, "true"),
     LE32(1) \o LE32(4),
     Record(1, <<>>, "huge")}

\* what follows the last record: nothing, one byte, seven bytes of a
\* header, a comment record that holds a JPEG
ScanTails == {<<>>, <<0>>, <<14, 0, 0, 0, 0, 0, 0>>,
              Record(EMR_COMMENT, <<0, 0, 0, 0>> \o GDIC \o jpg_sig \o jpg_eoi, "true") \o <<0>>}

ScanBuffers ==
    {Concat(rs) \o t : rs \in SeqsUpTo(ScanRecords, MaxScanRecords), t \in ScanTails}

InitEmfScan ==
    /\ UiIdle
    /\ MediaIdle
    /\ TextIdle
    /\ SecIdle /\ SlideIdle /\ RunsIdle /\ AnimIdle /\ SaIdle
    /\ WalkIdle /\ PptxIdle /\ ImgIdle /\ SaveIdle /\ OwnerIdle
    /\ emf_data \in ScanBuffers
    /\ pos = 0
    /\ emf_result = NoImage
    /\ emfPc = "scan"

\* the interpreter runs the next statement of the loop
SpecEmfFair == InitEmfScan /\ [][NextEmf]_vars /\ WF_vars(NextEmf)

\* the record at pos ends the scan: end-of-file type or zero length
EndRecord == U32(emf_data, pos) = EMR_EOF \/ U32(emf_data, pos + 4) = 0

\* fewer than the 8 bytes of a record header remain at pos
NoHeaderLeft == Len(emf_data) - pos < 8

\* C24: the record scan terminates for every buffer: the position strictly
\* increases on each step, the scan stops at the first end-of-file record,
\* at the first zero-length record, or when fewer than 8 bytes remain, and
\* nothing is examined after it has stopped.
C24_ScanTerminates ==
    /\ <>(emfPc = "returned")
    /\ [][/\ pos' # pos => pos' > pos /\ emfPc' = "scan"
          /\ InLoop /\ EndRecord => emfPc' = "returned" /\ emf_result' = NoImage /\ pos' = pos
          /\ emfPc = "scan" /\ NoHeaderLeft =>
                emfPc' = "returned" /\ emf_result' = NoImage /\ pos' = pos
          /\ emfPc = "returned" => emfPc' = "returned" /\ pos' = pos /\ emf_result' = emf_result
       ]_vars

\* C24 witness: the scan has stopped, without an image, at a zero-length
\* record that is not the first of the buffer, with bytes left after its
\* header
C24_Witness ==
    /\ emfPc = "returned"
    /\ emf_result = NoImage
    /\ pos > 0
    /\ pos + 8 < Len(emf_data)
    /\ U32(emf_data, pos + 4) = 0
    /\ U32(emf_data, pos) # EMR_EOF

\* ---------------------------------------------------------------------
\* extract_image: a metafile that cannot be converted
\* ---------------------------------------------------------------------

\* a legacy-metafile picture for which neither the embedded-raster recovery
\* nor the rasterization succeeds
UnconvertibleMetafile ==
    /\ imgPc \in {"start", "write", "build", "returned"}
    /\ picture.ext \in {"emf", "wmf"}
    /\ picture.embedded = ""
    /\ ~picture.pillow

\* C25: a metafile picture for which neither embedded-raster recovery nor
\* rasterization succeeds is skipped: extract_image writes no media file for
\* it and emits no ImageBlock.
C25_FailedMetafileSkipped ==
    UnconvertibleMetafile => img_file = <<>> /\ img_result = <<>>

(***************************************************************************)
(* The default text path of process_slide (lines 991-1018) with            *)
(* extract_text_from_shape (lines 615-637), paragraph by paragraph.        *)
(*                                                                         *)
(* A paragraph is [text, level, runs]: text is para.text.strip(), level    *)
(* para.level, runs what extract_formatted_runs returns ("None" for None). *)
(***************************************************************************)
MaxParas == 3

ShapeParagraphs == [text : {"", "Aims", "Scope"}, level : 0..1, runs : {"None", "r"}]

RECURSIVE paragraph_items(_)
\* lines 619-635: the items of the non-empty paragraphs, in order
paragraph_items(paras) ==
    IF paras = <<>> THEN <<>>
    ELSE LET para == Head(paras)
             entry == [text |-> para.text, level |-> para.level,
                      is_bullet |-> para.level > 0]
                     @@ (IF para.runs # "None" THEN [runs |-> para.runs] ELSE <<>>)
         IN  (IF para.text # "" THEN <<entry>> ELSE <<>>) \o paragraph_items(Tail(paras))

\* a variant of the test at line 995 that looks at the first item only
is_heading_FirstTopLevel(tc) == tc[1].level = 0

\* line 995
is_heading(tc) == Len(tc) = 1 /\ tc[1].level = 0

\* lines 997-1003
heading_of(p) ==
    [type |-> "heading", text |-> p.text, level |-> 2]
    @@ (IF "runs" \in DOMAIN p THEN [runs |-> p.runs] ELSE <<>>)

\* lines 1008-1012
list_item(p) ==
    [text |-> p.text, children |-> <<>>]
    @@ (IF "runs" \in DOMAIN p THEN [runs |-> p.runs] ELSE <<>>)

\* lines 1013-1018
list_of(tc) ==
    [type |-> "list", style |-> "bullet", items |-> [k \in DOMAIN tc |-> list_item(tc[k])]]

\* line 992, 617-618, 637: a shape without text frame, or without a non-empty
\* paragraph, gives None
ExtractText ==
    /\ textPc = "extract"
    /\ para_items' = IF has_text_frame THEN paragraph_items(text_frame) ELSE <<>>
    /\ textPc' = "emit"
    /\ UNCHANGED <<has_text_frame, text_frame, text_blocks, textOthers>>

\* line 993: text_content is None
NoTextBlock ==
    /\ textPc = "emit"
    /\ para_items = <<>>
    /\ textPc' = "done"
    /\ UNCHANGED <<has_text_frame, text_frame, para_items, text_blocks, textOthers>>

\* lines 995-1003
EmitHeading ==
    /\ textPc = "emit"
    /\ para_items # <<>>
    /\ is_heading(para_items)
    /\ text_blocks' = Append(text_blocks, heading_of(para_items[1]))
    /\ textPc' = "done"
    /\ UNCHANGED <<has_text_frame, text_frame, para_items, textOthers>>

\* lines 1004-1018
EmitList ==
    /\ textPc = "emit"
    /\ para_items # <<>>
    /\ ~is_heading(para_items)
    /\ text_blocks' = Append(text_blocks, list_of(para_items))
    /\ textPc' = "done"
    /\ UNCHANGED <<has_text_frame, text_frame, para_items, textOthers>>

InitText ==
    /\ UiIdle
    /\ MediaIdle
    /\ SecIdle /\ SlideIdle /\ RunsIdle /\ AnimIdle /\ EmfIdle /\ SaIdle
    /\ WalkIdle /\ PptxIdle /\ ImgIdle /\ SaveIdle /\ OwnerIdle
    /\ has_text_frame \in BOOLEAN
    /\ text_frame \in SeqsUpTo(ShapeParagraphs, MaxParas)
    /\ has_text_frame = FALSE => text_frame = <<>>
    /\ para_items = <<>>
    /\ text_blocks = <<>>
    /\ textPc = "extract"

NextText == ExtractText \/ NoTextBlock \/ EmitHeading \/ EmitList

SpecText == InitText /\ [][NextText]_vars

\* the non-empty paragraphs of the shape, in paragraph order
NonEmptyParas == SelectSeq(text_frame, LAMBDA p : p.text # "")

\* the ListBlock of the claim: one item per non-empty paragraph, in order,
\* with runs only where the paragraph has formatted runs
ExpectedList ==
    [type |-> "list", style |-> "bullet",
     items |-> [k \in DOMAIN NonEmptyParas |->
                  IF NonEmptyParas[k].runs = "None"
                  THEN [text |-> NonEmptyParas[k].text, children |-> <<>>]
                  ELSE [text |-> NonEmptyParas[k].text, children |-> <<>>,
                        runs |-> NonEmptyParas[k].runs]]]

IsHeadingBlock(b, p) == b.type = "heading" /\ b.text = p.text /\ b.level = 2

\* C26 as stated: the shape yields a Heading exactly when it has a single
\* paragraph and that paragraph is top-level; otherwise one ListBlock with
\* one item per non-empty paragraph in paragraph order; a shape with no
\* non-empty paragraph yields no block.
C26_HeadingIffSingleParagraph ==
    textPc = "done" =>
        IF NonEmptyParas = <<>> THEN text_blocks = <<>>
        ELSE IF Len(text_frame) = 1 /\ text_frame[1].level = 0
        THEN Len(text_blocks) = 1 /\ IsHeadingBlock(text_blocks[1], text_frame[1])
        ELSE text_blocks = <<ExpectedList>>

\* C26 as amended: the shape yields a Heading exactly when it has a single
\* non-empty paragraph and that paragraph is top-level; otherwise one
\* ListBlock with one item per non-empty paragraph in paragraph order; a
\* shape with no non-empty paragraph yields no block.
C26_HeadingIffSingleNonEmptyParagraph ==
    textPc = "done" =>
        IF NonEmptyParas = <<>> THEN text_blocks = <<>>
        ELSE IF Len(NonEmptyParas) = 1 /\ NonEmptyParas[1].level = 0
        THEN Len(text_blocks) = 1 /\ IsHeadingBlock(text_blocks[1], NonEmptyParas[1])
        ELSE text_blocks = <<ExpectedList>>

\* C26 witness: a shape of two paragraphs, a top-level one and an empty
\* one, has given a Heading
C26_Witness ==
    /\ textPc = "done"
    /\ Len(text_frame) = 2
    /\ text_frame[1].text # "" /\ text_frame[1].level = 0
    /\ text_frame[2].text = ""
    /\ Len(text_blocks) = 1
    /\ text_blocks[1].type = "heading"
    /\ text_blocks[1].text = text_frame[1].text

\* ---------------------------------------------------------------------
\* SmartArt: levels of the emitted tree
\* ---------------------------------------------------------------------
RECURSIVE LevelsFrom(_, _)
\* every node of the list es has the level d and its children, recursively,
\* the level d + 1
LevelsFrom(es, d) ==
    \A k \in DOMAIN es : es[k].level = d /\ LevelsFrom(es[k].children, d + 1)

\* C27: in every emitted diagram tree the level is the depth: a top-level
\* node has level 0, a child its parent's level plus 1, and every node of
\* the flat fallback list has level 0 and no children.
C27_LevelIsDepth ==
    saPc = "block" =>
        /\ LevelsFrom(nodes, 0)
        /\ NoDocTree => \A k \in DOMAIN nodes : nodes[k].level = 0 /\ nodes[k].children = <<>>

\* C27 witness: an emitted tree with a node at level 2, below a node at
\* level 1
C27_Witness ==
    /\ saPc = "block"
    /\ \E k \in DOMAIN nodes : \E c \in DOMAIN nodes[k].children :
          /\ nodes[k].children[c].level = 1
          /\ \E g \in DOMAIN nodes[k].children[c].children :
                nodes[k].children[c].children[g].level = 2

(***************************************************************************)
(* The media files of one run: the file names extract_image,               *)
(* extract_video, extract_smart_art and extract_layout_background write    *)
(* to, slide after slide, shape after shape.                               *)
(*                                                                         *)
(* A file name is [prefix, slide, key, mid, ext] for the strings           *)
(* "slide_{slide}_{key}.{ext}", "sa_{mid}.{ext}", "layout_bg_{slide}.{ext}"*)
(* (0 and "" for the parts a name lacks).  An artifact is named by where   *)
(* it comes from: [slide, idx, kind, mid].                                 *)
(***************************************************************************)
MaxMediaSlides == 2
MaxMediaShapes == 2

\* modelId values of diagram points
ModelIds == {"{A1}", "A1", "B-2"}

\* shape_id values
ShapeIds == {2, 3}

\* line 461: mid.replace('{', '').replace('}', '').replace('-', '')
safe_mid(mid) ==
    CASE mid = "{A1}" -> "A1"
      [] mid = "A1" -> "A1"
      [] mid = "B-2" -> "B2"

\* line 732
image_filename(slide_num, idx, ext) ==
    [prefix |-> "slide", slide |-> slide_num, key |-> idx, mid |-> "", ext |-> ext]

\* line 883
video_filename(slide_num, shape_id, ext) ==
    [prefix |-> "slide", slide |-> slide_num, key |-> shape_id, mid |-> "", ext |-> ext]

\* line 462
icon_filename(mid, ext) ==
    [prefix |-> "sa", slide |-> 0, key |-> 0, mid |-> safe_mid(mid), ext |-> ext]

\* line 795
layout_bg_filename(slide_num, ext) ==
    [prefix |-> "layout_bg", slide |-> slide_num, key |-> 0, mid |-> "", ext |-> ext]

Artifact(kind, mid) == [slide |-> media_slide, idx |-> media_shape, kind |-> kind, mid |-> mid]

Write(path, art) == [path |-> path, artifact |-> art]

AtShape == mediaPc = "slide" /\ media_shape < MaxMediaShapes

NextShape ==
    /\ media_shape' = media_shape + 1
    /\ UNCHANGED <<media_slide, mediaPc, mediaOthers>>

\* lines 926-929, 883-887: a shape with an embedded video and nothing else
ExtractVideoFile ==
    /\ AtShape
    /\ \E shape_id \in ShapeIds \ media_ids :
          /\ media_written' = media_written \cup
                {Write(video_filename(media_slide, shape_id, ".mp4"), Artifact("video", ""))}
          /\ media_ids' = media_ids \cup {shape_id}
    /\ NextShape

\* lines 943-947, 732-736: a picture, with or without a video of its own
ExtractPictureFile ==
    /\ AtShape
    /\ \E shape_id \in ShapeIds \ media_ids, has_video \in BOOLEAN :
          /\ media_written' = media_written
                \cup {Write(image_filename(media_slide, media_shape, "png"), Artifact("image", ""))}
                \cup (IF has_video
                      THEN {Write(video_filename(media_slide, shape_id, ".mp4"),
                                  Artifact("video", ""))}
                      ELSE {})
          /\ media_ids' = media_ids \cup {shape_id}
    /\ NextShape

\* lines 443-469: a diagram, one icon file for each point with a blip
ExtractIconFiles ==
    /\ AtShape
    /\ \E shape_id \in ShapeIds \ media_ids, mids \in (SUBSET ModelIds) \ {{}} :
          /\ media_written' = media_written \cup
                {Write(icon_filename(mid, "png"), Artifact("icon", mid)) : mid \in mids}
          /\ media_ids' = media_ids \cup {shape_id}
    /\ NextShape

\* a shape that writes nothing
NoFile ==
    /\ AtShape
    /\ \E shape_id \in ShapeIds \ media_ids : media_ids' = media_ids \cup {shape_id}
    /\ UNCHANGED media_written
    /\ NextShape

\* lines 1033-1037, 792-800: the slide is done, its layout background is
\* written if it has one; the next slide, or the end of the run
FinishMediaSlide ==
    /\ mediaPc = "slide"
    /\ \E bg \in BOOLEAN :
          media_written' = media_written \cup
              (IF bg THEN {Write(layout_bg_filename(media_slide, "png"),
                                 [slide |-> media_slide, idx |-> 0, kind |-> "background",
                                  mid |-> ""])}
               ELSE {})
    /\ IF media_slide < MaxMediaSlides
       THEN media_slide' = media_slide + 1 /\ mediaPc' = "slide"
       ELSE media_slide' = media_slide /\ mediaPc' = "done"
    /\ media_shape' = 0
    /\ media_ids' = {}
    /\ UNCHANGED mediaOthers

InitMedia ==
    /\ UiIdle
    /\ SecIdle /\ SlideIdle /\ RunsIdle /\ AnimIdle /\ EmfIdle /\ SaIdle
    /\ WalkIdle /\ PptxIdle /\ ImgIdle /\ SaveIdle /\ OwnerIdle /\ TextIdle
    /\ media_slide = 1
    /\ media_shape = 0
    /\ media_ids = {}
    /\ media_written = {}
    /\ mediaPc = "slide"

NextMedia ==
    \/ ExtractVideoFile \/ ExtractPictureFile \/ ExtractIconFiles \/ NoFile
    \/ FinishMediaSlide

SpecMedia == InitMedia /\ [][NextMedia]_vars

\* C28: within one run no two distinct extracted artifacts (slide images,
\* SmartArt icons, layout backgrounds, videos) are written to the same
\* media file path.
C28_NoPathWrittenTwice ==
    \A w1 \in media_written, w2 \in media_written :
        w1.path = w2.path => w1.artifact = w2.artifact

\* ---------------------------------------------------------------------
\* The review tool: image ids
\* ---------------------------------------------------------------------

\* get_image_list (lines 1819-1852): for each image block, in document
\* order, the id issued for it and the place of the block
get_image_list(data) ==
    {[id |-> <<data.sections[s].slides[k].order, idx - 1>>, at |-> <<s, k, idx>>] :
        <<s, k, idx>> \in
            {t \in (DOMAIN data.sections) \X (1..MaxSlides) \X (1..MaxSaveBlocks) :
                /\ t[2] \in DOMAIN data.sections[t[1]].slides
                /\ t[3] \in DOMAIN data.sections[t[1]].slides[t[2]].content
                /\ data.sections[t[1]].slides[t[2]].content[t[3]].type = "image"}}

\* the ids a request can carry
RequestIds == {it.id : it \in SaveItems}

\* C29: every id issued by get_image_list resolves through
\* find_image_by_id to the image block it was issued for, and an id that
\* was not issued resolves to nothing.
C29_IdsRoundTrip ==
    savePc # "idle" =>
        /\ \A e \in get_image_list(presentation_data) :
              find_image_by_id(presentation_data, e.id) = e.at
        /\ \A id \in RequestIds \ {e.id : e \in get_image_list(presentation_data)} :
              find_image_by_id(presentation_data, id) = <<>>

(***************************************************************************)
(* The review page of review-server.py: the images array, the handlers of  *)
(* its buttons and the requests in flight.  A handler runs to its next     *)
(* await in one step; the response of a request arrives in a later step,   *)
(* in any order with the clicks of the user.  A backend and a model are    *)
(* selected.                                                               *)
(***************************************************************************)
MaxImages == 2
MaxInFlight == 2

Images == 1..MaxImages

hasSelection(st, sel) == \E i \in Images : sel[i] /\ st[i] = "pending"
hasApproved(st) == \E i \in Images : st[i] = "approved"

\* lines 958-965, with the statuses and selections the handler has set
updateButtons(st, sel) ==
    /\ analyzeBtn_disabled' = ~hasSelection(st, sel)
    /\ saveBtn_disabled' = ~hasApproved(st)

InFlight == Len(analyze_runs) + Len(save_requests)

Without(seq, k) == [j \in 1..(Len(seq) - 1) |-> IF j < k THEN seq[j] ELSE seq[j + 1]]

\* lines 1084-1089; the checkbox is rendered for a pending image (line 991)
toggleSelect(id) ==
    /\ uiPc = "open"
    /\ ui_status[id] = "pending"
    /\ ui_selected' = [ui_selected EXCEPT ![id] = ~ui_selected[id]]
    /\ updateButtons(ui_status, ui_selected')
    /\ UNCHANGED <<ui_status, ui_result, analyze_runs, save_requests, ui_toast, uiPc, uiOthers>>

\* line 1114: images.filter(i => i.selected && i.status === 'pending')
toAnalyze ==
    SelectSeq([i \in Images |-> i], LAMBDA i : ui_selected[i] /\ ui_status[i] = "pending")

\* lines 1113-1125: the click on Analyze, up to the first await
analyzeSelected ==
    /\ uiPc = "open"
    /\ ~analyzeBtn_disabled
    /\ toAnalyze # <<>>
    /\ InFlight < MaxInFlight
    /\ analyzeBtn_disabled' = TRUE
    /\ ui_status' = [ui_status EXCEPT ![toAnalyze[1]] = "analyzing"]
    /\ analyze_runs' = Append(analyze_runs, [queue |-> toAnalyze, at |-> 1])
    /\ UNCHANGED <<ui_selected, ui_result, save_requests, saveBtn_disabled, ui_toast, uiPc,
                   uiOthers>>

\* lines 1135-1157: the response of /api/analyze for the image the run
\* waits for, then the start of the next image of its list or its end
AnalyzeResponse(r, ok) ==
    /\ uiPc = "open"
    /\ r \in DOMAIN analyze_runs
    /\ LET run == analyze_runs[r]
           img == run.queue[run.at]
           more == run.at < Len(run.queue)
           st1 == [ui_status EXCEPT ![img] = IF ok THEN "analyzed" ELSE "pending"]
           sel1 == IF ok THEN [ui_selected EXCEPT ![img] = FALSE] ELSE ui_selected
       IN  /\ ui_status' = IF more THEN [st1 EXCEPT ![run.queue[run.at + 1]] = "analyzing"]
                           ELSE st1
           /\ ui_selected' = sel1
           /\ ui_result' = IF ok THEN [ui_result EXCEPT ![img] = "analysis"] ELSE ui_result
           /\ analyze_runs' = IF more THEN [analyze_runs EXCEPT ![r].at = run.at + 1]
                              ELSE Without(analyze_runs, r)
           /\ updateButtons(st1, sel1)
           /\ ui_toast' = IF more THEN (IF ok THEN ui_toast ELSE "Error") ELSE "Analyzed"
    /\ UNCHANGED <<save_requests, uiPc, uiOthers>>

\* lines 1159-1183; the button is rendered for an analyzed image (line 998)
approveImage(id, edited) ==
    /\ uiPc = "open"
    /\ ui_status[id] = "analyzed"
    /\ ui_result' = IF edited THEN [ui_result EXCEPT ![id] = "edited"] ELSE ui_result
    /\ ui_status' = [ui_status EXCEPT ![id] = "approved"]
    /\ updateButtons(ui_status', ui_selected)
    /\ UNCHANGED <<ui_selected, analyze_runs, save_requests, ui_toast, uiPc, uiOthers>>

\* lines 1185-1193; the button is rendered for an approved image (line 1004)
unapproveImage(id) ==
    /\ uiPc = "open"
    /\ ui_status[id] = "approved"
    /\ ui_status' = [ui_status EXCEPT ![id] = "analyzed"]
    /\ updateButtons(ui_status', ui_selected)
    /\ UNCHANGED <<ui_selected, ui_result, analyze_runs, save_requests, ui_toast, uiPc,
                   uiOthers>>

\* lines 1195-1211
approveAll(edited) ==
    /\ uiPc = "open"
    /\ \E i \in Images : ui_status[i] = "analyzed"
    /\ ui_result' = [i \in Images |->
                        IF ui_status[i] = "analyzed" /\ edited THEN "edited" ELSE ui_result[i]]
    /\ ui_status' = [i \in Images |->
                        IF ui_status[i] = "analyzed" THEN "approved" ELSE ui_status[i]]
    /\ updateButtons(ui_status', ui_selected)
    /\ ui_toast' = "All approved"
    /\ UNCHANGED <<ui_selected, analyze_runs, save_requests, uiPc, uiOthers>>

\* lines 1101-1111; the button is rendered for an analyzed and for an
\* existing image (lines 999, 1009)
markIncorrect(id) ==
    /\ uiPc = "open"
    /\ ui_status[id] \in {"analyzed", "existing"}
    /\ ui_result' = [ui_result EXCEPT ![id] = "None"]
    /\ ui_status' = [ui_status EXCEPT ![id] = "pending"]
    /\ ui_selected' = [ui_selected EXCEPT ![id] = TRUE]
    /\ updateButtons(ui_status', ui_selected')
    /\ UNCHANGED <<analyze_runs, save_requests, ui_toast, uiPc, uiOthers>>

\* lines 1213-1228: the click on Save, up to the await
saveApproved ==
    /\ uiPc = "open"
    /\ ~saveBtn_disabled
    /\ hasApproved(ui_status)
    /\ InFlight < MaxInFlight
    /\ saveBtn_disabled' = TRUE
    /\ save_requests' = Append(save_requests,
                               [approved |-> {i \in Images : ui_status[i] = "approved"},
                                results |-> ui_result])
    /\ UNCHANGED <<ui_status, ui_selected, ui_result, analyze_runs, analyzeBtn_disabled,
                   ui_toast, uiPc, uiOthers>>

\* lines 1229-1244: the response of /api/save
SaveResponse(q, success) ==
    /\ uiPc = "open"
    /\ q \in DOMAIN save_requests
    /\ ui_status' = IF success
                    THEN [i \in Images |-> IF i \in save_requests[q].approved
                                           THEN "existing" ELSE ui_status[i]]
                    ELSE ui_status
    /\ ui_toast' = IF success THEN "Saved" ELSE "Failed to save"
    /\ save_requests' = Without(save_requests, q)
    /\ updateButtons(ui_status', ui_selected)
    /\ UNCHANGED <<ui_selected, ui_result, analyze_runs, uiPc, uiOthers>>

\* lines 922-935, 1819-1852: the page has loaded the image list
InitUi ==
    /\ SecIdle /\ SlideIdle /\ RunsIdle /\ AnimIdle /\ EmfIdle /\ SaIdle
    /\ WalkIdle /\ PptxIdle /\ ImgIdle /\ SaveIdle /\ OwnerIdle /\ TextIdle /\ MediaIdle
    /\ ui_status \in [Images -> {"pending", "existing"}]
    /\ ui_selected = [i \in Images |-> FALSE]
    /\ ui_result = [i \in Images |-> IF ui_status[i] = "existing" THEN "analysis" ELSE "None"]
    /\ analyze_runs = <<>>
    /\ save_requests = <<>>
    /\ analyzeBtn_disabled = TRUE
    /\ saveBtn_disabled = TRUE
    /\ ui_toast = ""
    /\ uiPc = "open"

NextUi ==
    \/ \E id \in Images : toggleSelect(id)
    \/ analyzeSelected
    \/ \E r \in 1..MaxInFlight, ok \in BOOLEAN : AnalyzeResponse(r, ok)
    \/ \E id \in Images, edited \in BOOLEAN : approveImage(id, edited)
    \/ \E id \in Images : unapproveImage(id)
    \/ \E edited \in BOOLEAN : approveAll(edited)
    \/ \E id \in Images : markIncorrect(id)
    \/ saveApproved
    \/ \E q \in 1..MaxInFlight, success \in BOOLEAN : SaveResponse(q, success)

SpecUi == InitUi /\ [][NextUi]_vars

\* the status changes of the claim
StatusEdges ==
    {<<"pending", "analyzing">>, <<"analyzing", "analyzed">>, <<"analyzing", "pending">>,
     <<"analyzed", "approved">>, <<"approved", "analyzed">>, <<"approved", "existing">>,
     <<"analyzed", "pending">>, <<"existing", "pending">>}

\* a response of /api/save arrives for a request that carried the result
\* image i has now
SavedWith(i, success) ==
    \E q \in DOMAIN save_requests :
        /\ save_requests' = Without(save_requests, q)
        /\ ui_toast' = (IF success THEN "Saved" ELSE "Failed to save")
        /\ i \in save_requests[q].approved
        /\ save_requests[q].results[i] = ui_result[i]

SaveFails ==
    /\ Len(save_requests') < Len(save_requests)
    /\ ui_toast' = "Failed to save"

\* C30: under every interleaving of user actions with in-flight analyze and
\* save requests, an image's status changes only along pending ->
\* analyzing -> (analyzed | pending), analyzed <-> approved, approved ->
\* existing, and a reset to pending from analyzed or existing; an image
\* becomes existing only while it is approved and only after a successful
\* save response for a request that carried its result; when a save fails
\* every approved image stays approved.
C30_StatusLifecycle ==
    [][\A i \in Images :
          /\ ui_status'[i] # ui_status[i] => <<ui_status[i], ui_status'[i]>> \in StatusEdges
          /\ ui_status'[i] = "existing" /\ ui_status[i] # "existing" =>
                ui_status[i] = "approved" /\ SavedWith(i, TRUE)
          /\ SaveFails /\ ui_status[i] = "approved" => ui_status'[i] = "approved"
    ]_vars

=============================================================================
